---- MODULE Spec2Model ----
(***************************************************************************)
(* Ownership-scoped CRUD over Category and Task (apps/tasks): the store,   *)
(* the serializers' validation rules, the status transition table and the  *)
(* view handlers, one action per HTTP handler.                             *)
(***************************************************************************)
EXTENDS Integers, FiniteSets, Sequences, TLC

VARIABLES categories, tasks, next_category_id, next_task_id,
          was_in_progress, today, resp,
          accounts, next_salt, outbox, used_tokens, request,
          now, stamps, inflight

vars == <<categories, tasks, next_category_id, next_task_id,
          was_in_progress, today, resp,
          accounts, next_salt, outbox, used_tokens, request,
          now, stamps, inflight>>

\* The rows and bookkeeping of apps/accounts.
account_vars == <<accounts, next_salt, outbox, used_tokens, request>>

\* The clock of the timestamps, the created_at and updated_at columns of the
\* tasks, and the requests that have read the store and not yet written.
flight_vars == <<now, stamps, inflight>>

(***************************************************************************)
(* Bounds of the model.                                                    *)
(***************************************************************************)
MaxCategories == 2
MaxTasks == 2
MaxLifeTasks == 1
MaxDay == 2

(***************************************************************************)
(* Value domains.                                                          *)
(***************************************************************************)
None == -1

Users == {"A", "B"}

Status == {"todo", "in_progress", "done"}

Priority == {"low", "medium", "high", "urgent"}

STATUS_DEFAULT == "todo"

PRIORITY_DEFAULT == "medium"

COLOUR_DEFAULT == <<"#", "6", "3", "6", "6", "f", "1">>

Days == 0..MaxDay

CategoryIds == 1..MaxCategories

TaskIds == 1..MaxTasks

\* Category names as character sequences, so that case folding is computed.
Work == <<"W", "o", "r", "k">>

work == <<"w", "o", "r", "k">>

Home == <<"H", "o", "m", "e">>

Names == {Work, work, Home}

Red == <<"#", "E", "F", "4", "4", "4", "4">>

NotHex == <<"#", "e", "f", "4", "4", "4", "g">>

Colours == {COLOUR_DEFAULT, Red, NotHex}

Titles == {"T"}

(***************************************************************************)
(* Helpers on requests: a request body is a record holding only the fields *)
(* the client sent.                                                        *)
(***************************************************************************)
Has(req, f) == f \in DOMAIN req

Get(req, f, dflt) == IF f \in DOMAIN req THEN req[f] ELSE dflt

Remove(store, id) == [i \in (DOMAIN store) \ {id} |-> store[i]]

Response(op, u, id, code, errors, data) ==
    [op |-> op, user |-> u, id |-> id, code |-> code, errors |-> errors, data |-> data]

NotFound(op, u, id) == Response(op, u, id, 404, {"detail"}, {})

Forbidden(op, u, id) == Response(op, u, id, 403, {"detail"}, {})

(***************************************************************************)
(* Case-insensitive comparison (the ORM's iexact lookup).                  *)
(***************************************************************************)
lower(c) ==
    CASE c = "W" -> "w"
      [] c = "H" -> "h"
      [] c = "O" -> "o"
      [] c = "R" -> "r"
      [] c = "K" -> "k"
      [] c = "M" -> "m"
      [] c = "E" -> "e"
      [] OTHER -> c

iexact(a, b) ==
    /\ Len(a) = Len(b)
    /\ \A i \in 1..Len(a) : lower(a[i]) = lower(b[i])

(***************************************************************************)
(* CategorySerializer                                                      *)
(***************************************************************************)
HexDigits == {"0", "1", "2", "3", "4", "5", "6", "7", "8", "9",
              "a", "b", "c", "d", "e", "f", "A", "B", "C", "D", "E", "F"}

\* re.match(r"^#[0-9A-Fa-f]{6}$", value)
validate_colour(value) ==
    /\ Len(value) = 7
    /\ value[1] = "#"
    /\ \A i \in 2..7 : value[i] \in HexDigits

\* validate_name comparing names exactly instead of ignoring case.
validate_name_exact(C, value, u, instance) ==
    LET qs == {c \in DOMAIN C : C[c].name = value /\ C[c].user = u}
        excl == IF instance # None THEN qs \ {instance} ELSE qs
    IN excl = {}

\* validate_name looking at the categories of every user.
validate_name_all_users(C, value, u, instance) ==
    LET qs == {c \in DOMAIN C : iexact(C[c].name, value)}
        excl == IF instance # None THEN qs \ {instance} ELSE qs
    IN excl = {}

\* TRUE when the name passes; instance is None on create, the row's id on update.
validate_name(C, value, u, instance) ==
    LET qs == {c \in DOMAIN C : iexact(C[c].name, value) /\ C[c].user = u}
        excl == IF instance # None THEN qs \ {instance} ELSE qs
    IN excl = {}

\* Field errors of a category request (all failing fields are reported).
CategoryErrors(C, u, req, instance) ==
    (IF instance = None /\ ~Has(req, "name") THEN {"name"} ELSE {})
    \cup (IF Has(req, "name") /\ ~validate_name(C, req.name, u, instance)
          THEN {"name"} ELSE {})
    \cup (IF Has(req, "colour") /\ ~validate_colour(req.colour)
          THEN {"colour"} ELSE {})

\* The store's UniqueConstraint(fields=["name", "user"]): exact match.
unique_category_per_user(C, name, u, instance) ==
    \A c \in DOMAIN C : (c # instance) => ~(C[c].name = name /\ C[c].user = u)

(***************************************************************************)
(* Views: queryset scoping and object lookup.                              *)
(***************************************************************************)
\* IsOwner.has_object_permission
has_object_permission(u, obj) == obj.user = u

\* CategoryViewSet.get_queryset
Category_get_queryset(C, u) == {c \in DOMAIN C : C[c].user = u}

\* get_queryset without the filter on the requesting user.
Task_get_queryset_all(T, u) == DOMAIN T

\* TaskViewSet.get_queryset
Task_get_queryset(T, u) == {t \in DOMAIN T : T[t].user = u}

\* Count("tasks") annotation of the category queryset.
task_count(T, c) == Cardinality({t \in DOMAIN T : T[t].category = c})

CategoryData(C, T, c) ==
    [id |-> c, name |-> C[c].name, colour |-> C[c].colour, task_count |-> task_count(T, c)]

\* get_object looking the id up in the whole table, leaving the ownership
\* check to the object permission.
Category_get_object_unscoped(C, u, id) ==
    IF id \notin DOMAIN C THEN 404
    ELSE IF ~has_object_permission(u, C[id]) THEN 403
    ELSE 200

Task_get_object_unscoped(T, u, id) ==
    IF id \notin DOMAIN T THEN 404
    ELSE IF ~has_object_permission(u, T[id]) THEN 403
    ELSE 200

\* GenericAPIView.get_object: 404 outside the queryset, then the object
\* permission check (403).
Category_get_object(C, u, id) ==
    IF id \notin Category_get_queryset(C, u) THEN 404
    ELSE IF ~has_object_permission(u, C[id]) THEN 403
    ELSE 200

Task_get_object(T, u, id) ==
    IF id \notin Task_get_queryset(T, u) THEN 404
    ELSE IF ~has_object_permission(u, T[id]) THEN 403
    ELSE 200

(***************************************************************************)
(* Category handlers, as pure outcomes [categories, tasks, resp] of a      *)
(* request on a store (C, T).                                              *)
(***************************************************************************)
CategoryCreateOutcome(C, T, nid, u, req) ==
    LET errors == CategoryErrors(C, u, req, None)
        row == [name |-> req.name,
                colour |-> Get(req, "colour", COLOUR_DEFAULT),
                user |-> u]
    IN IF errors # {}
       THEN [categories |-> C, tasks |-> T,
             resp |-> Response("category_create", u, None, 400, errors, {})]
       ELSE IF ~unique_category_per_user(C, req.name, u, None)
       THEN [categories |-> C, tasks |-> T,
             resp |-> Response("category_create", u, None, 500, {}, {})]
       ELSE LET C2 == C @@ (nid :> row)
            IN [categories |-> C2, tasks |-> T,
                resp |-> Response("category_create", u, nid, 201, {},
                                  {[id |-> nid, name |-> row.name,
                                    colour |-> row.colour, task_count |-> 0]})]

CategoryPatchOutcome(C, T, u, id, req) ==
    LET found == Category_get_object(C, u, id)
    IN IF found = 404
       THEN [categories |-> C, tasks |-> T, resp |-> NotFound("category_patch", u, id)]
       ELSE IF found = 403
       THEN [categories |-> C, tasks |-> T, resp |-> Forbidden("category_patch", u, id)]
       ELSE LET errors == CategoryErrors(C, u, req, id)
                row == [name |-> Get(req, "name", C[id].name),
                        colour |-> Get(req, "colour", C[id].colour),
                        user |-> C[id].user]
            IN IF errors # {}
               THEN [categories |-> C, tasks |-> T,
                     resp |-> Response("category_patch", u, id, 400, errors, {})]
               ELSE IF ~unique_category_per_user(C, row.name, row.user, id)
               THEN [categories |-> C, tasks |-> T,
                     resp |-> Response("category_patch", u, id, 500, {}, {})]
               ELSE LET C2 == [C EXCEPT ![id] = row]
                    IN [categories |-> C2, tasks |-> T,
                        resp |-> Response("category_patch", u, id, 200, {},
                                          {CategoryData(C2, T, id)})]

\* The category reference deleting its tasks along with the category.
SET_NULL_as_cascade(T, c) ==
    [t \in {i \in DOMAIN T : T[i].category # c} |-> T[t]]

\* on_delete=SET_NULL on Task.category
SET_NULL(T, c) ==
    [t \in DOMAIN T |-> IF T[t].category = c THEN [T[t] EXCEPT !.category = None] ELSE T[t]]

CategoryDeleteOutcome(C, T, u, id) ==
    LET found == Category_get_object(C, u, id)
    IN IF found = 404
       THEN [categories |-> C, tasks |-> T, resp |-> NotFound("category_delete", u, id)]
       ELSE IF found = 403
       THEN [categories |-> C, tasks |-> T, resp |-> Forbidden("category_delete", u, id)]
       ELSE [categories |-> Remove(C, id), tasks |-> SET_NULL(T, id),
             resp |-> Response("category_delete", u, id, 204, {}, {})]

CategoryRetrieveOutcome(C, T, u, id) ==
    LET found == Category_get_object(C, u, id)
    IN IF found = 404
       THEN [categories |-> C, tasks |-> T, resp |-> NotFound("category_retrieve", u, id)]
       ELSE IF found = 403
       THEN [categories |-> C, tasks |-> T, resp |-> Forbidden("category_retrieve", u, id)]
       ELSE [categories |-> C, tasks |-> T,
             resp |-> Response("category_retrieve", u, id, 200, {}, {CategoryData(C, T, id)})]

CategoryListOutcome(C, T, u) ==
    [categories |-> C, tasks |-> T,
     resp |-> Response("category_list", u, None, 200, {},
                       {CategoryData(C, T, c) : c \in Category_get_queryset(C, u)})]

(***************************************************************************)
(* Category actions.                                                       *)
(***************************************************************************)
CategoryCreate(u, req) ==
    /\ next_category_id <= MaxCategories
    /\ LET o == CategoryCreateOutcome(categories, tasks, next_category_id, u, req)
       IN /\ categories' = o.categories
          /\ tasks' = o.tasks
          /\ resp' = o.resp
          /\ next_category_id' = IF o.resp.code = 201 THEN next_category_id + 1
                                 ELSE next_category_id
    /\ UNCHANGED <<next_task_id, was_in_progress, today>>
    /\ UNCHANGED account_vars
    /\ UNCHANGED flight_vars

CategoryPatch(u, id, req) ==
    /\ LET o == CategoryPatchOutcome(categories, tasks, u, id, req)
       IN /\ categories' = o.categories
          /\ tasks' = o.tasks
          /\ resp' = o.resp
    /\ UNCHANGED <<next_category_id, next_task_id, was_in_progress, today>>
    /\ UNCHANGED account_vars
    /\ UNCHANGED flight_vars

CategoryDelete(u, id) ==
    /\ LET o == CategoryDeleteOutcome(categories, tasks, u, id)
       IN /\ categories' = o.categories
          /\ tasks' = o.tasks
          /\ resp' = o.resp
    /\ UNCHANGED <<next_category_id, next_task_id, was_in_progress, today>>
    /\ UNCHANGED account_vars
    /\ UNCHANGED flight_vars

CategoryRetrieve(u, id) ==
    /\ resp' = CategoryRetrieveOutcome(categories, tasks, u, id).resp
    /\ UNCHANGED <<categories, tasks, next_category_id, next_task_id, was_in_progress, today>>
    /\ UNCHANGED account_vars
    /\ UNCHANGED flight_vars

CategoryList(u) ==
    /\ resp' = CategoryListOutcome(categories, tasks, u).resp
    /\ UNCHANGED <<categories, tasks, next_category_id, next_task_id, was_in_progress, today>>
    /\ UNCHANGED account_vars
    /\ UNCHANGED flight_vars

(***************************************************************************)
(* Task model and TaskSerializer                                           *)
(***************************************************************************)
\* is_overdue without the test on the status.
is_overdue_any_status(task, day) ==
    IF task.due_date # None
    THEN task.due_date < day
    ELSE FALSE

\* Task.is_overdue
is_overdue(task, day) ==
    IF task.due_date # None /\ task.status # "done"
    THEN task.due_date < day
    ELSE FALSE

\* The due-date rule applied to updates as well.
validate_due_date_on_update(value, instance, day) ==
    IF value # None
    THEN ~(value < day)
    ELSE TRUE

\* TRUE when the due date passes; instance is None on create.
validate_due_date(value, instance, day) ==
    IF value # None /\ instance = None
    THEN ~(value < day)
    ELSE TRUE

\* validate_category without the ownership test.
validate_category_any_owner(C, value, u) == TRUE

\* TRUE when the category passes: value is a Category row or None.
validate_category(C, value, u) ==
    IF value = None THEN TRUE
    ELSE ~(C[value].user # u)

\* A transition table that also lets todo go to done.
VALID_TRANSITIONS_skip ==
    [todo |-> {"todo", "in_progress", "done"},
     in_progress |-> {"in_progress", "done", "todo"},
     done |-> {"done", "todo"}]

VALID_TRANSITIONS ==
    [todo |-> {"todo", "in_progress"},
     in_progress |-> {"in_progress", "done", "todo"},
     done |-> {"done", "todo"}]

\* TaskSerializer.validate: TRUE when attrs pass; instance is a Task row or None.
validate(T, attrs, instance) ==
    IF instance # None /\ Has(attrs, "status")
    THEN attrs.status \in VALID_TRANSITIONS[T[instance].status]
    ELSE TRUE

\* Field-level errors of a task request: required title, choice fields, the
\* related-field lookup over Category.objects.all(), validate_<field>.
TaskFieldErrors(C, u, req, instance, day) ==
    (IF instance = None /\ ~Has(req, "title") THEN {"title"} ELSE {})
    \cup (IF Has(req, "title") /\ req.title = "" THEN {"title"} ELSE {})
    \cup (IF Has(req, "status") /\ req.status \notin Status THEN {"status"} ELSE {})
    \cup (IF Has(req, "priority") /\ req.priority \notin Priority THEN {"priority"} ELSE {})
    \cup (IF Has(req, "due_date") /\ ~validate_due_date(req.due_date, instance, day)
          THEN {"due_date"} ELSE {})
    \cup (IF Has(req, "category") /\ req.category # None /\ req.category \notin DOMAIN C
          THEN {"category"} ELSE {})
    \cup (IF Has(req, "category") /\ req.category \in DOMAIN C
             /\ ~validate_category(C, req.category, u)
          THEN {"category"} ELSE {})

\* A validation that runs the object-level validate whatever the fields gave.
TaskErrors_all_levels(C, T, u, req, instance, day) ==
    TaskFieldErrors(C, u, req, instance, day)
    \cup (IF ~validate(T, req, instance) THEN {"status"} ELSE {})

\* Serializer.is_valid: field-level errors first, the object-level validate
\* only when every field passed.
TaskErrors(C, T, u, req, instance, day) ==
    LET ferrors == TaskFieldErrors(C, u, req, instance, day)
    IN IF ferrors # {} THEN ferrors
       ELSE IF ~validate(T, req, instance) THEN {"status"}
       ELSE {}

TaskData(T, t, day) ==
    [id |-> t, title |-> T[t].title, status |-> T[t].status,
     priority |-> T[t].priority, due_date |-> T[t].due_date,
     category |-> T[t].category, is_overdue |-> is_overdue(T[t], day)]

(***************************************************************************)
(* Task handlers, as pure outcomes of a request on a store (C, T).         *)
(***************************************************************************)
\* A create that takes the owner from the request body when it names one.
TaskCreateOutcome_body_user(C, T, nid, u, req, day) ==
    LET errors == TaskErrors(C, T, u, req, None, day)
        row == [title |-> req.title,
                status |-> Get(req, "status", STATUS_DEFAULT),
                priority |-> Get(req, "priority", PRIORITY_DEFAULT),
                due_date |-> Get(req, "due_date", None),
                category |-> Get(req, "category", None),
                user |-> Get(req, "user", u)]
    IN IF errors # {}
       THEN [categories |-> C, tasks |-> T,
             resp |-> Response("task_create", u, None, 400, errors, {})]
       ELSE LET T2 == T @@ (nid :> row)
            IN [categories |-> C, tasks |-> T2,
                resp |-> Response("task_create", u, nid, 201, {}, {TaskData(T2, nid, day)})]

\* TaskViewSet.create + perform_create: serializer.save(user=request.user)
TaskCreateOutcome(C, T, nid, u, req, day) ==
    LET errors == TaskErrors(C, T, u, req, None, day)
        row == [title |-> req.title,
                status |-> Get(req, "status", STATUS_DEFAULT),
                priority |-> Get(req, "priority", PRIORITY_DEFAULT),
                due_date |-> Get(req, "due_date", None),
                category |-> Get(req, "category", None),
                user |-> u]
    IN IF errors # {}
       THEN [categories |-> C, tasks |-> T,
             resp |-> Response("task_create", u, None, 400, errors, {})]
       ELSE LET T2 == T @@ (nid :> row)
            IN [categories |-> C, tasks |-> T2,
                resp |-> Response("task_create", u, nid, 201, {}, {TaskData(T2, nid, day)})]

\* An update that treats the body as the whole task: a field the request
\* does not name is reset to its default.
TaskPatchOutcome_as_put(C, T, u, id, req, day) ==
    LET found == Task_get_object(T, u, id)
    IN IF found = 404
       THEN [categories |-> C, tasks |-> T, resp |-> NotFound("task_patch", u, id)]
       ELSE IF found = 403
       THEN [categories |-> C, tasks |-> T, resp |-> Forbidden("task_patch", u, id)]
       ELSE LET errors == TaskErrors(C, T, u, req, id, day)
                row == [title |-> Get(req, "title", T[id].title),
                        status |-> Get(req, "status", STATUS_DEFAULT),
                        priority |-> Get(req, "priority", PRIORITY_DEFAULT),
                        due_date |-> Get(req, "due_date", None),
                        category |-> Get(req, "category", None),
                        user |-> T[id].user]
            IN IF errors # {}
               THEN [categories |-> C, tasks |-> T,
                     resp |-> Response("task_patch", u, id, 400, errors, {})]
               ELSE LET T2 == [T EXCEPT ![id] = row]
                    IN [categories |-> C, tasks |-> T2,
                        resp |-> Response("task_patch", u, id, 200, {}, {TaskData(T2, id, day)})]

\* An update that stores the fields that passed their own checks although
\* the request as a whole is rejected.
TaskPatchOutcome_keep_valid(C, T, u, id, req, day) ==
    LET found == Task_get_object(T, u, id)
    IN IF found = 404
       THEN [categories |-> C, tasks |-> T, resp |-> NotFound("task_patch", u, id)]
       ELSE IF found = 403
       THEN [categories |-> C, tasks |-> T, resp |-> Forbidden("task_patch", u, id)]
       ELSE LET errors == TaskErrors(C, T, u, req, id, day)
                T2 == [T EXCEPT ![id] =
                          [f \in DOMAIN T[id] |->
                              IF Has(req, f) /\ f \notin errors THEN req[f] ELSE T[id][f]]]
            IN IF errors # {}
               THEN [categories |-> C, tasks |-> T2,
                     resp |-> Response("task_patch", u, id, 400, errors, {})]
               ELSE [categories |-> C, tasks |-> T2,
                     resp |-> Response("task_patch", u, id, 200, {}, {TaskData(T2, id, day)})]

\* TaskViewSet.partial_update
TaskPatchOutcome(C, T, u, id, req, day) ==
    LET found == Task_get_object(T, u, id)
    IN IF found = 404
       THEN [categories |-> C, tasks |-> T, resp |-> NotFound("task_patch", u, id)]
       ELSE IF found = 403
       THEN [categories |-> C, tasks |-> T, resp |-> Forbidden("task_patch", u, id)]
       ELSE LET errors == TaskErrors(C, T, u, req, id, day)
                row == [title |-> Get(req, "title", T[id].title),
                        status |-> Get(req, "status", T[id].status),
                        priority |-> Get(req, "priority", T[id].priority),
                        due_date |-> Get(req, "due_date", T[id].due_date),
                        category |-> Get(req, "category", T[id].category),
                        user |-> T[id].user]
            IN IF errors # {}
               THEN [categories |-> C, tasks |-> T,
                     resp |-> Response("task_patch", u, id, 400, errors, {})]
               ELSE LET T2 == [T EXCEPT ![id] = row]
                    IN [categories |-> C, tasks |-> T2,
                        resp |-> Response("task_patch", u, id, 200, {}, {TaskData(T2, id, day)})]

TaskDeleteOutcome(C, T, u, id) ==
    LET found == Task_get_object(T, u, id)
    IN IF found = 404
       THEN [categories |-> C, tasks |-> T, resp |-> NotFound("task_delete", u, id)]
       ELSE IF found = 403
       THEN [categories |-> C, tasks |-> T, resp |-> Forbidden("task_delete", u, id)]
       ELSE [categories |-> C, tasks |-> Remove(T, id),
             resp |-> Response("task_delete", u, id, 204, {}, {})]

TaskRetrieveOutcome(C, T, u, id, day) ==
    LET found == Task_get_object(T, u, id)
    IN IF found = 404
       THEN [categories |-> C, tasks |-> T, resp |-> NotFound("task_retrieve", u, id)]
       ELSE IF found = 403
       THEN [categories |-> C, tasks |-> T, resp |-> Forbidden("task_retrieve", u, id)]
       ELSE [categories |-> C, tasks |-> T,
             resp |-> Response("task_retrieve", u, id, 200, {}, {TaskData(T, id, day)})]

TaskListOutcome(C, T, u, day) ==
    [categories |-> C, tasks |-> T,
     resp |-> Response("task_list", u, None, 200, {},
                       {TaskData(T, t, day) : t \in Task_get_queryset(T, u)})]

\* stats counting every task past its due date as overdue, done or not.
stats_overdue_any_status(T, u, day) ==
    LET qs == Task_get_queryset(T, u)
    IN [total |-> Cardinality(qs),
        by_status |-> [s \in Status |-> Cardinality({t \in qs : T[t].status = s})],
        by_priority |-> [p \in Priority |-> Cardinality({t \in qs : T[t].priority = p})],
        overdue |-> Cardinality({t \in qs : T[t].due_date # None /\ T[t].due_date < day})]

\* stats keeping only the keys the GROUP BY returns, without the zero fill.
stats_without_zero_fill(T, u, day) ==
    LET qs == Task_get_queryset(T, u)
    IN [total |-> Cardinality(qs),
        by_status |-> [s \in {T[t].status : t \in qs} |->
                          Cardinality({t \in qs : T[t].status = s})],
        by_priority |-> [p \in {T[t].priority : t \in qs} |->
                            Cardinality({t \in qs : T[t].priority = p})],
        overdue |-> Cardinality({t \in qs : T[t].due_date # None /\ T[t].due_date < day
                                              /\ ~(T[t].status = "done")})]

\* TaskViewSet.stats
stats(T, u, day) ==
    LET qs == Task_get_queryset(T, u)
    IN [total |-> Cardinality(qs),
        by_status |-> [s \in Status |-> Cardinality({t \in qs : T[t].status = s})],
        by_priority |-> [p \in Priority |-> Cardinality({t \in qs : T[t].priority = p})],
        overdue |-> Cardinality({t \in qs : T[t].due_date # None /\ T[t].due_date < day
                                              /\ ~(T[t].status = "done")})]

TaskStatsOutcome(C, T, u, day) ==
    [categories |-> C, tasks |-> T,
     resp |-> Response("task_stats", u, None, 200, {}, {stats(T, u, day)})]

(***************************************************************************)
(* Task actions.  was_in_progress records the ids of the stored tasks      *)
(* whose status has been in_progress at some point of their life.          *)
(***************************************************************************)
\* created_at (auto_now_add) and updated_at (auto_now) are set by Model.save():
\* both on the INSERT of a row, updated_at on every later save.
Created(S, id, at) == S @@ (id :> [created_at |-> at, updated_at |-> at])

Saved(S, id, at) == [S EXCEPT ![id].updated_at = at]

\* The timestamps of the rows that are still stored.
Kept(S, T) == [t \in DOMAIN T |-> S[t]]

Visited(T, seen) == {t \in DOMAIN T : t \in seen \/ T[t].status = "in_progress"}

TaskCreate(u, req) ==
    /\ next_task_id <= MaxTasks
    /\ LET o == TaskCreateOutcome(categories, tasks, next_task_id, u, req, today)
       IN /\ categories' = o.categories
          /\ tasks' = o.tasks
          /\ resp' = o.resp
          /\ next_task_id' = IF o.resp.code = 201 THEN next_task_id + 1 ELSE next_task_id
          /\ was_in_progress' = Visited(o.tasks, was_in_progress)
          /\ stamps' = IF o.resp.code = 201 THEN Created(stamps, next_task_id, now)
                       ELSE stamps
    /\ UNCHANGED <<next_category_id, today>>
    /\ UNCHANGED account_vars
    /\ UNCHANGED <<now, inflight>>

TaskPatch(u, id, req) ==
    /\ LET o == TaskPatchOutcome(categories, tasks, u, id, req, today)
       IN /\ categories' = o.categories
          /\ tasks' = o.tasks
          /\ resp' = o.resp
          /\ was_in_progress' = Visited(o.tasks, was_in_progress)
          /\ stamps' = IF o.resp.code = 200 THEN Saved(stamps, id, now) ELSE stamps
    /\ UNCHANGED <<next_category_id, next_task_id, today>>
    /\ UNCHANGED account_vars
    /\ UNCHANGED <<now, inflight>>

TaskDelete(u, id) ==
    /\ LET o == TaskDeleteOutcome(categories, tasks, u, id)
       IN /\ categories' = o.categories
          /\ tasks' = o.tasks
          /\ resp' = o.resp
          /\ was_in_progress' = Visited(o.tasks, was_in_progress)
          /\ stamps' = Kept(stamps, o.tasks)
    /\ UNCHANGED <<next_category_id, next_task_id, today>>
    /\ UNCHANGED account_vars
    /\ UNCHANGED <<now, inflight>>

TaskRetrieve(u, id) ==
    /\ resp' = TaskRetrieveOutcome(categories, tasks, u, id, today).resp
    /\ UNCHANGED <<categories, tasks, next_category_id, next_task_id, was_in_progress, today>>
    /\ UNCHANGED account_vars
    /\ UNCHANGED flight_vars

TaskList(u) ==
    /\ resp' = TaskListOutcome(categories, tasks, u, today).resp
    /\ UNCHANGED <<categories, tasks, next_category_id, next_task_id, was_in_progress, today>>
    /\ UNCHANGED account_vars
    /\ UNCHANGED flight_vars

TaskStats(u) ==
    /\ resp' = TaskStatsOutcome(categories, tasks, u, today).resp
    /\ UNCHANGED <<categories, tasks, next_category_id, next_task_id, was_in_progress, today>>
    /\ UNCHANGED account_vars
    /\ UNCHANGED flight_vars

\* date.today() moves on between requests.
Tick ==
    /\ today < MaxDay
    /\ today' = today + 1
    /\ UNCHANGED <<categories, tasks, next_category_id, next_task_id, was_in_progress, resp>>
    /\ UNCHANGED account_vars
    /\ UNCHANGED flight_vars

(***************************************************************************)
(* User rows (apps/accounts).  A password is stored as a salted hash: the  *)
(* pair of the raw password and the salt drawn by set_password.            *)
(***************************************************************************)
EmailA == <<"o", "k", "@", "m", "e">>

EmailB == <<"w", "e", "@", "m", "e">>

NoImage == ""

make_password(raw, salt) == [raw |-> raw, salt |-> salt]

\* User.objects.create_user
create_user(email, raw, salt) ==
    [email |-> email, is_active |-> TRUE,
     password |-> make_password(raw, salt), bio |-> "", profile_image |-> NoImage]

(***************************************************************************)
(* Initial state: the two users are registered, their stores are empty,    *)
(* no request served yet.                                                   *)
(***************************************************************************)
Init ==
    /\ categories = <<>>
    /\ tasks = <<>>
    /\ next_category_id = 1
    /\ next_task_id = 1
    /\ was_in_progress = {}
    /\ today = 0
    /\ resp = Response("none", "A", None, 0, {}, {})
    /\ accounts = [u \in Users |-> create_user(IF u = "A" THEN EmailA ELSE EmailB, "old", 0)]
    /\ next_salt = 1
    /\ outbox = {}
    /\ used_tokens = {}
    /\ request = <<>>
    /\ now = 0
    /\ stamps = <<>>
    /\ inflight = <<>>

(***************************************************************************)
(* Category requests of the clients.                                       *)
(***************************************************************************)
CategoryCreateReqs ==
    {[name |-> n] : n \in Names}
    \cup {[name |-> n, colour |-> c] : n \in Names, c \in Colours}

CategoryPatchReqs ==
    {[name |-> n] : n \in Names}
    \cup {[colour |-> c] : c \in Colours}
    \cup {[name |-> n, colour |-> c] : n \in Names, c \in Colours}

NextCategory ==
    \/ \E u \in Users, req \in CategoryCreateReqs : CategoryCreate(u, req)
    \/ \E u \in Users, id \in CategoryIds, req \in CategoryPatchReqs : CategoryPatch(u, id, req)
    \/ \E u \in Users, id \in CategoryIds : CategoryDelete(u, id)
    \/ \E u \in Users, id \in CategoryIds : CategoryRetrieve(u, id)
    \/ \E u \in Users : CategoryList(u)

SpecCategory == Init /\ [][NextCategory]_vars

(***************************************************************************)
(* Task requests about status and due date.                                *)
(***************************************************************************)
DueDates == Days \cup {None}

TaskCreateReqs ==
    {[title |-> t] : t \in Titles}
    \cup {[title |-> t, status |-> s] : t \in Titles, s \in Status}
    \cup {[title |-> t, due_date |-> d] : t \in Titles, d \in DueDates}
    \cup {[title |-> t, status |-> s, due_date |-> d] : t \in Titles, s \in Status, d \in DueDates}

TaskPatchReqs ==
    {[status |-> s] : s \in Status}
    \cup {[due_date |-> d] : d \in DueDates}
    \cup {[status |-> s, due_date |-> d] : s \in Status, d \in DueDates}

\* The life of the tasks of one principal.
Owner == "A"

LifeTaskIds == 1..MaxLifeTasks

LifeTaskCreate(req) ==
    /\ next_task_id <= MaxLifeTasks
    /\ TaskCreate(Owner, req)

NextTask ==
    \/ \E req \in TaskCreateReqs : LifeTaskCreate(req)
    \/ \E id \in LifeTaskIds, req \in TaskPatchReqs : TaskPatch(Owner, id, req)
    \/ \E id \in LifeTaskIds : TaskDelete(Owner, id)
    \/ \E id \in LifeTaskIds : TaskRetrieve(Owner, id)
    \/ Tick

SpecTask == Init /\ [][NextTask]_vars

(***************************************************************************)
(* Two principals working on tasks and categories: requests about          *)
(* ownership and the category reference.                                   *)
(***************************************************************************)
OwnNames == {Work}

CategoryRefs == CategoryIds \cup {None}

OwnCategoryReqs == {[name |-> n] : n \in OwnNames}

OwnTaskCreateReqs ==
    {[title |-> t] : t \in Titles}
    \cup {[title |-> t, category |-> c] : t \in Titles, c \in CategoryRefs}

OwnTaskPatchReqs == {[category |-> c] : c \in CategoryRefs}

NextOwn ==
    \/ \E u \in Users, req \in OwnCategoryReqs : CategoryCreate(u, req)
    \/ \E u \in Users, id \in CategoryIds, req \in OwnCategoryReqs : CategoryPatch(u, id, req)
    \/ \E u \in Users, id \in CategoryIds : CategoryDelete(u, id)
    \/ \E u \in Users, id \in CategoryIds : CategoryRetrieve(u, id)
    \/ \E u \in Users : CategoryList(u)
    \/ \E u \in Users, req \in OwnTaskCreateReqs : TaskCreate(u, req)
    \/ \E u \in Users, id \in TaskIds, req \in OwnTaskPatchReqs : TaskPatch(u, id, req)
    \/ \E u \in Users, id \in TaskIds : TaskDelete(u, id)
    \/ \E u \in Users, id \in TaskIds : TaskRetrieve(u, id)
    \/ \E u \in Users : TaskList(u)
    \/ \E u \in Users : TaskStats(u)

SpecOwn == Init /\ [][NextOwn]_vars

(***************************************************************************)
(* Properties of the task life cycle (SpecTask).                           *)
(***************************************************************************)
\* The transition table as the specification states it.
TransitionTable ==
    [todo |-> {"todo", "in_progress"},
     in_progress |-> {"in_progress", "done", "todo"},
     done |-> {"done", "todo"}]

\* C1: for every stored task and every PATCH by its owner that carries a
\* status field, a pair (stored, requested) of the transition table is
\* accepted and the stored status becomes the requested one; any other pair
\* is rejected with an error keyed "status" and the store is unchanged.
C1_StatusTransitions ==
    \A id \in DOMAIN tasks, req \in TaskPatchReqs :
        Has(req, "status") =>
            LET o == TaskPatchOutcome(categories, tasks, tasks[id].user, id, req, today)
            IN IF req.status \in TransitionTable[tasks[id].status]
               THEN /\ o.resp.code = 200
                    /\ o.tasks[id].status = req.status
               ELSE /\ o.resp.code = 400
                    /\ "status" \in o.resp.errors
                    /\ o.tasks = tasks

\* A PATCH to in_progress was rejected for a task that went todo ->
\* in_progress -> done before.
C1_Witness ==
    /\ resp.op = "task_patch"
    /\ resp.code = 400
    /\ "status" \in resp.errors
    /\ resp.id \in DOMAIN tasks
    /\ tasks[resp.id].status = "done"
    /\ resp.id \in was_in_progress

\* C2: a task created through the create endpoint has stored status todo,
\* whatever status value the create request carries.
C2_CreateStartsTodo ==
    (resp.op = "task_create" /\ resp.code = 201) => tasks[resp.id].status = "todo"

\* C3: a task whose stored status is done has had stored status in_progress
\* at some earlier point of its life.
C3_DoneViaInProgress ==
    \A t \in DOMAIN tasks : tasks[t].status = "done" => t \in was_in_progress

\* C10: is_overdue of every stored task is true exactly when a due date is
\* set, it is strictly before today and the status is not done; a successful
\* PATCH of the status to done yields is_overdue false, in the store and in
\* the response, and leaves the due date unchanged.
C10_IsOverdue ==
    /\ \A t \in DOMAIN tasks :
          is_overdue(tasks[t], today)
            <=> (tasks[t].due_date # None /\ tasks[t].due_date < today
                 /\ tasks[t].status # "done")
    /\ \A t \in DOMAIN tasks :
          LET o == TaskPatchOutcome(categories, tasks, tasks[t].user, t,
                                    [status |-> "done"], today)
          IN o.resp.code = 200 =>
                /\ ~is_overdue(o.tasks[t], today)
                /\ \A row \in o.resp.data : row.is_overdue = FALSE
                /\ o.tasks[t].due_date = tasks[t].due_date

\* A PATCH to done succeeded on a task whose due date is in the past.
C10_Witness ==
    /\ resp.op = "task_patch"
    /\ resp.code = 200
    /\ \E row \in resp.data :
          /\ row.status = "done"
          /\ row.due_date # None
          /\ row.due_date < today
          /\ row.is_overdue = FALSE
    /\ resp.id \in was_in_progress

(***************************************************************************)
(* Properties of category names (SpecCategory).                            *)
(***************************************************************************)
\* C7: no two stored categories of the same owner have names that are equal
\* ignoring letter case.
C7_UniqueNames ==
    \A c1 \in DOMAIN categories, c2 \in DOMAIN categories :
        (c1 # c2 /\ categories[c1].user = categories[c2].user)
            => ~iexact(categories[c1].name, categories[c2].name)

\* A rename was rejected for its name while the owner holds two categories.
C7_Witness ==
    /\ resp.op = "category_patch"
    /\ resp.code = 400
    /\ "name" \in resp.errors
    /\ \E c1 \in DOMAIN categories, c2 \in DOMAIN categories :
          c1 # c2 /\ categories[c1].user = categories[c2].user

ValidColours == {COLOUR_DEFAULT, Red}

\* C8: a category create or rename to name n by owner o, with a valid colour,
\* is accepted if and only if no other category owned by o has a name equal
\* to n ignoring case.
C8_NameAcceptedIff ==
    /\ \A u \in Users, req \in CategoryCreateReqs :
          (Has(req, "colour") => req.colour \in ValidColours) =>
             (CategoryCreateOutcome(categories, tasks, next_category_id, u, req).resp.code = 201
                <=> ~\E c \in DOMAIN categories :
                        categories[c].user = u /\ iexact(categories[c].name, req.name))
    /\ \A id \in DOMAIN categories, req \in CategoryPatchReqs :
          (Has(req, "name") /\ (Has(req, "colour") => req.colour \in ValidColours)) =>
             (CategoryPatchOutcome(categories, tasks, categories[id].user, id, req).resp.code = 200
                <=> ~\E c \in DOMAIN categories :
                        /\ c # id
                        /\ categories[c].user = categories[id].user
                        /\ iexact(categories[c].name, req.name))

\* A rename was accepted although another owner holds a category of the same
\* name ignoring case.
C8_Witness ==
    /\ resp.op = "category_patch"
    /\ resp.code = 200
    /\ resp.id \in DOMAIN categories
    /\ \E c \in DOMAIN categories :
          /\ categories[c].user # categories[resp.id].user
          /\ iexact(categories[c].name, categories[resp.id].name)

(***************************************************************************)
(* Properties of ownership scoping (SpecOwn).                              *)
(***************************************************************************)
Unchanged(o) == o.tasks = tasks /\ o.categories = categories

\* C4: the task list, the category list and the task stats returned to a
\* principal contain and count only rows owned by that principal.
C4_ListsScoped ==
    /\ resp.op = "task_list" =>
          \A row \in resp.data : tasks[row.id].user = resp.user
    /\ resp.op = "category_list" =>
          \A row \in resp.data :
             /\ categories[row.id].user = resp.user
             /\ row.task_count =
                   Cardinality({t \in DOMAIN tasks :
                                   tasks[t].user = resp.user /\ tasks[t].category = row.id})
    /\ resp.op = "task_stats" =>
          \A st \in resp.data :
             LET mine == {t \in DOMAIN tasks : tasks[t].user = resp.user}
             IN /\ st.total = Cardinality(mine)
                /\ \A s \in Status :
                      st.by_status[s] = Cardinality({t \in mine : tasks[t].status = s})
                /\ \A p \in Priority :
                      st.by_priority[p] = Cardinality({t \in mine : tasks[t].priority = p})
                /\ st.overdue =
                      Cardinality({t \in mine : /\ tasks[t].due_date # None
                                                /\ tasks[t].due_date < today
                                                /\ tasks[t].status # "done"})

\* A principal received a category list with a counted task while the other
\* user also owns a task and a category.
C4_Witness ==
    /\ resp.op = "category_list"
    /\ \E row \in resp.data : row.task_count = 1
    /\ \E t \in DOMAIN tasks : tasks[t].user # resp.user
    /\ \E c \in DOMAIN categories : categories[c].user # resp.user

\* C5: a detail read, PATCH or DELETE by a principal on the id of a task or
\* category owned by another user answers 404 and changes no row.
C5_CrossOwner404 ==
    /\ \A u \in Users, id \in DOMAIN tasks :
          tasks[id].user # u =>
             /\ TaskRetrieveOutcome(categories, tasks, u, id, today).resp.code = 404
             /\ TaskDeleteOutcome(categories, tasks, u, id).resp.code = 404
             /\ Unchanged(TaskDeleteOutcome(categories, tasks, u, id))
             /\ \A req \in OwnTaskPatchReqs :
                   /\ TaskPatchOutcome(categories, tasks, u, id, req, today).resp.code = 404
                   /\ Unchanged(TaskPatchOutcome(categories, tasks, u, id, req, today))
    /\ \A u \in Users, id \in DOMAIN categories :
          categories[id].user # u =>
             /\ CategoryRetrieveOutcome(categories, tasks, u, id).resp.code = 404
             /\ CategoryDeleteOutcome(categories, tasks, u, id).resp.code = 404
             /\ Unchanged(CategoryDeleteOutcome(categories, tasks, u, id))
             /\ \A req \in OwnCategoryReqs :
                   /\ CategoryPatchOutcome(categories, tasks, u, id, req).resp.code = 404
                   /\ Unchanged(CategoryPatchOutcome(categories, tasks, u, id, req))

\* A principal's PATCH on another user's task was answered 404.
C5_Witness ==
    /\ resp.op = "task_patch"
    /\ resp.code = 404
    /\ resp.id \in DOMAIN tasks
    /\ tasks[resp.id].user # resp.user

\* C6: the response a principal gets from a detail read, PATCH or DELETE on
\* an id owned by another user equals the response on the store in which that
\* id names no row.
C6_AbsenceIndistinguishable ==
    /\ \A u \in Users, id \in DOMAIN tasks :
          tasks[id].user # u =>
             LET T0 == Remove(tasks, id)
             IN /\ TaskRetrieveOutcome(categories, tasks, u, id, today).resp
                     = TaskRetrieveOutcome(categories, T0, u, id, today).resp
                /\ TaskDeleteOutcome(categories, tasks, u, id).resp
                     = TaskDeleteOutcome(categories, T0, u, id).resp
                /\ \A req \in OwnTaskPatchReqs :
                      TaskPatchOutcome(categories, tasks, u, id, req, today).resp
                        = TaskPatchOutcome(categories, T0, u, id, req, today).resp
    /\ \A u \in Users, id \in DOMAIN categories :
          categories[id].user # u =>
             LET C0 == Remove(categories, id)
                 T0 == SET_NULL(tasks, id)
             IN /\ CategoryRetrieveOutcome(categories, tasks, u, id).resp
                     = CategoryRetrieveOutcome(C0, T0, u, id).resp
                /\ CategoryDeleteOutcome(categories, tasks, u, id).resp
                     = CategoryDeleteOutcome(C0, T0, u, id).resp
                /\ \A req \in OwnCategoryReqs :
                      CategoryPatchOutcome(categories, tasks, u, id, req).resp
                        = CategoryPatchOutcome(C0, T0, u, id, req).resp

\* A principal's detail read of another user's category was answered 404.
C6_Witness ==
    /\ resp.op = "category_retrieve"
    /\ resp.code = 404
    /\ resp.id \in DOMAIN categories
    /\ categories[resp.id].user # resp.user

\* C9: every task with a category reference points to a stored category of
\* the task's owner; a create or PATCH naming a category owned by another user
\* is rejected with an error keyed "category" and stores nothing.
C9_CategoryOwnership ==
    /\ \A t \in DOMAIN tasks :
          tasks[t].category # None =>
             /\ tasks[t].category \in DOMAIN categories
             /\ categories[tasks[t].category].user = tasks[t].user
    /\ \A u \in Users, c \in DOMAIN categories :
          categories[c].user # u =>
             /\ \A req \in OwnTaskCreateReqs :
                   (Has(req, "category") /\ req.category = c) =>
                      LET o == TaskCreateOutcome(categories, tasks, next_task_id, u, req, today)
                      IN o.resp.code = 400 /\ "category" \in o.resp.errors /\ Unchanged(o)
             /\ \A id \in Task_get_queryset(tasks, u) :
                   LET o == TaskPatchOutcome(categories, tasks, u, id, [category |-> c], today)
                   IN o.resp.code = 400 /\ "category" \in o.resp.errors /\ Unchanged(o)

\* A PATCH naming another user's category was rejected on a task that keeps
\* a reference to a category of its owner.
C9_Witness ==
    /\ resp.op = "task_patch"
    /\ resp.code = 400
    /\ "category" \in resp.errors
    /\ resp.id \in DOMAIN tasks
    /\ tasks[resp.id].category # None
    /\ \E c \in DOMAIN categories : categories[c].user # resp.user

(***************************************************************************)
(* The overdue filter of the task list (apps/tasks/filters.py).  The ORM   *)
(* turns the Q object into a WHERE clause, evaluated in SQL's three-valued *)
(* logic: "T", "F" and "N" (unknown, a comparison with NULL).              *)
(***************************************************************************)
SqlBool(b) == IF b THEN "T" ELSE "F"

SqlNot(a) == IF a = "N" THEN "N" ELSE IF a = "T" THEN "F" ELSE "T"

SqlAnd(a, b) ==
    IF a = "F" \/ b = "F" THEN "F"
    ELSE IF a = "N" \/ b = "N" THEN "N"
    ELSE "T"

\* Q(due_date__lt=today)
due_date__lt(row, day) ==
    IF row.due_date = None THEN "N" ELSE SqlBool(row.due_date < day)

\* ~Q(status=Task.Status.DONE)
status_not_done(row) == SqlNot(SqlBool(row.status = "done"))

\* queryset.filter(overdue_q): WHERE due_date < today AND NOT (status = done)
filter_q(row, day) == SqlAnd(due_date__lt(row, day), status_not_done(row))

\* queryset.exclude(overdue_q): the ORM guards a negated lookup on the
\* nullable due_date column with IS NOT NULL:
\*   WHERE NOT (due_date < today AND due_date IS NOT NULL AND NOT (status = done))
exclude_q(row, day) ==
    SqlNot(SqlAnd(SqlAnd(due_date__lt(row, day), SqlBool(row.due_date # None)),
                  status_not_done(row)))

\* exclude as a bare NOT of the filter's clause, without the NULL guard.
filter_overdue_bare_not(T, qs, value, day) ==
    IF value
    THEN {t \in qs : filter_q(T[t], day) = "T"}
    ELSE {t \in qs : SqlNot(filter_q(T[t], day)) = "T"}

\* TaskFilter.filter_overdue
filter_overdue(T, qs, value, day) ==
    IF value
    THEN {t \in qs : filter_q(T[t], day) = "T"}
    ELSE {t \in qs : exclude_q(T[t], day) = "T"}

overdue_op(value) == IF value THEN "task_list_overdue_true" ELSE "task_list_overdue_false"

\* TaskViewSet.list with ?overdue=<value>
TaskListOverdueOutcome(C, T, u, value, day) ==
    [categories |-> C, tasks |-> T,
     resp |-> Response(overdue_op(value), u, None, 200, {},
                       {TaskData(T, t, day) :
                           t \in filter_overdue(T, Task_get_queryset(T, u), value, day)})]

TaskListOverdue(u, value) ==
    /\ resp' = TaskListOverdueOutcome(categories, tasks, u, value, today).resp
    /\ UNCHANGED <<categories, tasks, next_category_id, next_task_id, was_in_progress, today>>
    /\ UNCHANGED account_vars
    /\ UNCHANGED flight_vars

(***************************************************************************)
(* Queries over a populated store: the store is any one the handlers can   *)
(* build (tasks of any owner, varying in status and due date or in         *)
(* priority), the day is any day, and the clients read the store through   *)
(* the list, the filtered list and stats.                                  *)
(***************************************************************************)
MaxQueryTasks == 2

QueryDue == {None, 0, 1}

DueRows ==
    [title : Titles, status : Status, priority : {PRIORITY_DEFAULT},
     due_date : QueryDue, category : {None}, user : Users]

PriorityRows ==
    [title : Titles, status : {STATUS_DEFAULT}, priority : Priority,
     due_date : {None}, category : {None}, user : Users]

QueryStores ==
    UNION {[1..n -> DueRows] \cup [1..n -> PriorityRows] : n \in 0..MaxQueryTasks}

InitQuery ==
    /\ categories = <<>>
    /\ tasks \in QueryStores
    /\ next_category_id = 1
    /\ next_task_id = Cardinality(DOMAIN tasks) + 1
    /\ was_in_progress = Visited(tasks, {})
    /\ today \in Days
    /\ resp = Response("none", "A", None, 0, {}, {})
    /\ accounts = [u \in Users |-> create_user(IF u = "A" THEN EmailA ELSE EmailB, "old", 0)]
    /\ next_salt = 1
    /\ outbox = {}
    /\ used_tokens = {}
    /\ request = <<>>
    /\ now = 0
    /\ stamps = [t \in DOMAIN tasks |-> [created_at |-> 0, updated_at |-> 0]]
    /\ inflight = <<>>

NextQuery ==
    \/ \E u \in Users, value \in BOOLEAN : TaskListOverdue(u, value)
    \/ \E u \in Users : TaskList(u)
    \/ \E u \in Users : TaskStats(u)

SpecQuery == InitQuery /\ [][NextQuery]_vars

(***************************************************************************)
(* C11: on the task list, overdue=true selects exactly the user's tasks    *)
(* with a due date before today and a status other than done, and          *)
(* overdue=false selects exactly the user's other tasks, so every task of  *)
(* the user is in exactly one of the two results.                          *)
(***************************************************************************)
C11_OverdueComplement ==
    \A u \in Users :
        LET all == TaskListOutcome(categories, tasks, u, today).resp.data
            yes == TaskListOverdueOutcome(categories, tasks, u, TRUE, today).resp.data
            no == TaskListOverdueOutcome(categories, tasks, u, FALSE, today).resp.data
        IN /\ yes = {d \in all : d.due_date # None /\ d.due_date < today
                                 /\ d.status # "done"}
           /\ no = all \ yes
           /\ yes \cap no = {}
           /\ yes \cup no = all

\* overdue=false returns an open task without a due date and leaves out an
\* overdue task of the same user.
C11_Witness ==
    /\ resp.op = "task_list_overdue_false"
    /\ \E d \in resp.data : d.due_date = None /\ d.status # "done"
    /\ \E t \in Task_get_queryset(tasks, resp.user) :
          /\ is_overdue(tasks[t], today)
          /\ TaskData(tasks, t, today) \notin resp.data

(***************************************************************************)
(* C12: on one store and one day, the overdue number of stats, the number  *)
(* of tasks the list returns under overdue=true and the number of the      *)
(* user's tasks whose is_overdue is true are equal, and the filter and     *)
(* is_overdue agree on every task, tasks without a due date and done tasks *)
(* included.                                                               *)
(***************************************************************************)
C12_OverdueAgree ==
    \A u \in Users :
        LET qs == Task_get_queryset(tasks, u)
            st == CHOOSE d \in TaskStatsOutcome(categories, tasks, u, today).resp.data : TRUE
            yes == TaskListOverdueOutcome(categories, tasks, u, TRUE, today).resp.data
        IN /\ st.overdue = Cardinality(yes)
           /\ st.overdue = Cardinality({t \in qs : is_overdue(tasks[t], today)})
           /\ \A t \in qs : is_overdue(tasks[t], today)
                               <=> TaskData(tasks, t, today) \in yes
           /\ \A d \in yes : d.is_overdue

\* stats counts one overdue task of a user who also has a done task past
\* its due date.
C12_Witness ==
    /\ resp.op = "task_stats"
    /\ \E d \in resp.data : d.overdue = 1 /\ d.total = 2
    /\ \E t \in Task_get_queryset(tasks, resp.user) :
          /\ tasks[t].status = "done"
          /\ tasks[t].due_date # None
          /\ tasks[t].due_date < today

(***************************************************************************)
(* C13: stats returns by_status with exactly the keys todo, in_progress    *)
(* and done, by_priority with exactly the keys low, medium, high and       *)
(* urgent, each value the number of the user's tasks with that value (0    *)
(* when there is none), and total the number of the user's tasks; on an    *)
(* empty task set total, overdue and every key are 0.                      *)
(***************************************************************************)
C13_StatsZeroFilled ==
    \A u \in Users :
        LET mine == {t \in DOMAIN tasks : tasks[t].user = u}
            st == CHOOSE d \in TaskStatsOutcome(categories, tasks, u, today).resp.data : TRUE
        IN /\ DOMAIN st.by_status = {"todo", "in_progress", "done"}
           /\ DOMAIN st.by_priority = {"low", "medium", "high", "urgent"}
           /\ \A s \in DOMAIN st.by_status :
                 st.by_status[s] = Cardinality({t \in mine : tasks[t].status = s})
           /\ \A p \in DOMAIN st.by_priority :
                 st.by_priority[p] = Cardinality({t \in mine : tasks[t].priority = p})
           /\ st.total = Cardinality(mine)
           /\ mine = {} =>
                 /\ st.total = 0
                 /\ st.overdue = 0
                 /\ \A s \in DOMAIN st.by_status : st.by_status[s] = 0
                 /\ \A p \in DOMAIN st.by_priority : st.by_priority[p] = 0

\* stats of a user with one low and one high task: the other priorities and
\* two of the statuses are reported as 0.
C13_Witness ==
    /\ resp.op = "task_stats"
    /\ \E d \in resp.data :
          /\ d.total = 2
          /\ d.by_priority["low"] = 1 /\ d.by_priority["high"] = 1
          /\ d.by_priority["medium"] = 0 /\ d.by_priority["urgent"] = 0
          /\ d.by_status["todo"] = 2
          /\ d.by_status["in_progress"] = 0 /\ d.by_status["done"] = 0

(***************************************************************************)
(* C14: the due-date rule rejects a request if and only if it is a create  *)
(* with a due date before today; the rejected create stores no task.  A    *)
(* PATCH never gets a due-date error: it is accepted when it leaves a past *)
(* due date untouched and when it sets the due date to a past date.        *)
(***************************************************************************)
C14_DueDateOnCreateOnly ==
    /\ \A req \in TaskCreateReqs :
          LET o == TaskCreateOutcome(categories, tasks, next_task_id, Owner, req, today)
              past == Has(req, "due_date") /\ req.due_date # None /\ req.due_date < today
          IN /\ "due_date" \in o.resp.errors <=> past
             /\ past => o.resp.code = 400 /\ o.tasks = tasks
             /\ ~past => o.resp.code = 201
    /\ \A id \in DOMAIN tasks, req \in TaskPatchReqs :
          LET o == TaskPatchOutcome(categories, tasks, Owner, id, req, today)
              allowed == Has(req, "status") =>
                            req.status \in TransitionTable[tasks[id].status]
          IN /\ "due_date" \notin o.resp.errors
             /\ allowed =>
                   /\ o.resp.code = 200
                   /\ o.tasks[id].due_date = Get(req, "due_date", tasks[id].due_date)

\* A PATCH answered 200 on a task whose stored due date is before today.
C14_Witness ==
    /\ resp.op = "task_patch"
    /\ resp.code = 200
    /\ resp.id \in DOMAIN tasks
    /\ tasks[resp.id].due_date # None
    /\ tasks[resp.id].due_date < today

(***************************************************************************)
(* Deleting a user (the admin site's delete, User.delete()): the owner     *)
(* references of Category and Task are on_delete=CASCADE, and the          *)
(* categories deleted on the way null the references to them.              *)
(***************************************************************************)
\* A user deletion that leaves the rows of the user in place.
CASCADE_keep_rows(store, u) == store

\* on_delete=CASCADE on Category.user and Task.user
CASCADE(store, u) ==
    [i \in {j \in DOMAIN store : store[j].user # u} |-> store[i]]

UserDeleteOutcome(A, C, T, u) ==
    LET gone == {c \in DOMAIN C : C[c].user = u}
        T1 == [t \in DOMAIN T |->
                  IF T[t].category \in gone THEN [T[t] EXCEPT !.category = None] ELSE T[t]]
    IN [accounts |-> Remove(A, u),
        categories |-> CASCADE(C, u),
        tasks |-> CASCADE(T1, u),
        resp |-> Response("user_delete", u, None, 302, {}, {})]

UserDelete(u) ==
    /\ u \in DOMAIN accounts
    /\ LET o == UserDeleteOutcome(accounts, categories, tasks, u)
       IN /\ accounts' = o.accounts
          /\ categories' = o.categories
          /\ tasks' = o.tasks
          /\ resp' = o.resp
          /\ was_in_progress' = Visited(o.tasks, was_in_progress)
          /\ stamps' = Kept(stamps, o.tasks)
    /\ UNCHANGED <<next_category_id, next_task_id, today, next_salt, outbox, used_tokens, request>>
    /\ UNCHANGED <<now, inflight>>

\* JWT authentication: the token's user exists and is active.
Authenticated(u) == u \in DOMAIN accounts /\ accounts[u].is_active

(***************************************************************************)
(* Users filing tasks under their categories, deleting categories, and     *)
(* being deleted.  Every task is created with a category.                  *)
(***************************************************************************)
CascadeTaskCreateReqs == {[title |-> t, category |-> c] : t \in Titles, c \in CategoryIds}

CascadeCategoryCreate(u, req) == Authenticated(u) /\ CategoryCreate(u, req)

CascadeTaskCreate(u, req) == Authenticated(u) /\ TaskCreate(u, req)

CascadeCategoryDelete(u, id) == Authenticated(u) /\ CategoryDelete(u, id)

NextCascade ==
    \/ \E u \in Users, req \in OwnCategoryReqs : CascadeCategoryCreate(u, req)
    \/ \E u \in Users, req \in CascadeTaskCreateReqs : CascadeTaskCreate(u, req)
    \/ \E u \in Users, id \in CategoryIds : CascadeCategoryDelete(u, id)
    \/ \E u \in Users : UserDelete(u)

SpecCascade == Init /\ [][NextCascade]_vars

(***************************************************************************)
(* C15: deleting a category deletes no task: every task that referenced it *)
(* is still stored, with a null category reference and its title, status,  *)
(* priority, due date and owner unchanged, and every other task is         *)
(* untouched.                                                              *)
(***************************************************************************)
C15_CategoryDeleteSetsNull ==
    \A u \in Users, id \in DOMAIN categories :
        LET o == CategoryDeleteOutcome(categories, tasks, u, id)
        IN IF o.resp.code = 204
           THEN /\ id \notin DOMAIN o.categories
                /\ DOMAIN o.tasks = DOMAIN tasks
                /\ \A t \in DOMAIN tasks :
                      IF tasks[t].category = id
                      THEN /\ o.tasks[t].category = None
                           /\ o.tasks[t].title = tasks[t].title
                           /\ o.tasks[t].status = tasks[t].status
                           /\ o.tasks[t].priority = tasks[t].priority
                           /\ o.tasks[t].due_date = tasks[t].due_date
                           /\ o.tasks[t].user = tasks[t].user
                      ELSE o.tasks[t] = tasks[t]
           ELSE o.tasks = tasks /\ o.categories = categories

\* A category was deleted: its task is stored without a category, next to a
\* task that still references another category.
C15_Witness ==
    /\ resp.op = "category_delete"
    /\ resp.code = 204
    /\ resp.id \notin DOMAIN categories
    /\ \E t1, t2 \in DOMAIN tasks :
          /\ tasks[t1].category = None
          /\ tasks[t2].category \in DOMAIN categories

(***************************************************************************)
(* C16: deleting a user deletes every category and every task of that user *)
(* and no category or task of another user; no stored category or task     *)
(* references a user that does not exist.                                  *)
(***************************************************************************)
C16_UserDeleteCascades ==
    /\ \A c \in DOMAIN categories : categories[c].user \in DOMAIN accounts
    /\ \A t \in DOMAIN tasks : tasks[t].user \in DOMAIN accounts
    /\ \A u \in DOMAIN accounts :
          LET o == UserDeleteOutcome(accounts, categories, tasks, u)
          IN /\ DOMAIN o.accounts = DOMAIN accounts \ {u}
             /\ DOMAIN o.categories = {c \in DOMAIN categories : categories[c].user # u}
             /\ \A c \in DOMAIN o.categories : o.categories[c] = categories[c]
             /\ DOMAIN o.tasks = {t \in DOMAIN tasks : tasks[t].user # u}
             /\ \A t \in DOMAIN o.tasks : o.tasks[t] = tasks[t]

\* A user who had a task was deleted: the task is gone, the category and
\* the task of the other user are still stored.
C16_Witness ==
    /\ resp.op = "user_delete"
    /\ resp.user \notin DOMAIN accounts
    /\ next_task_id - 1 > Cardinality(DOMAIN tasks)
    /\ DOMAIN tasks # {}
    /\ DOMAIN categories # {}

(***************************************************************************)
(* Outbound email (apps/accounts/emails.py).  env is what the SendGrid     *)
(* integration does for this message: "no_key" (SENDGRID_API_KEY unset),   *)
(* "sent" (the API call returns) or "failed" (the API call raises).  The   *)
(* result is "True", "False", or "raise" for an exception reaching the     *)
(* caller.                                                                 *)
(***************************************************************************)
SendEnvs == {"no_key", "sent", "failed"}

\* A send helper without the try/except around the API call.
_send_email_unguarded(env) ==
    IF env = "no_key" THEN "False"
    ELSE IF env = "sent" THEN "True"
    ELSE "raise"

_send_email(env) ==
    IF env = "no_key" THEN "False"
    ELSE IF env = "sent" THEN "True"
    ELSE "False"

\* The messages SendGrid has accepted, after a send with this result.
Delivered(O, result, message) == IF result = "True" THEN O \cup {message} ELSE O

(***************************************************************************)
(* Password reset (PasswordResetRequestView, PasswordResetConfirmView).    *)
(* Both endpoints are open to anonymous callers.                           *)
(***************************************************************************)
Anonymous == "anon"

EmailAUpper == <<"O", "K", "@", "m", "e">>

EmailUnknown == <<"h", "e", "@", "m", "e">>

EmailMalformed == <<"o", "k">>

ResetEmails == {EmailA, EmailAUpper, EmailB, EmailUnknown, EmailMalformed}

\* serializers.EmailField: a local part, "@" and a domain.
EmailField(value) == \E i \in 2..(Len(value) - 1) : value[i] = "@"

\* value.lower()
email_lower(value) == [i \in 1..Len(value) |-> lower(value[i])]

SUCCESS_MSG == "If an account with that email exists, a reset link has been sent."

\* default_token_generator.make_token: a hash over the user's key and the
\* current password hash.
make_token(A, u) == [user |-> u, hash |-> A[u].password]

\* A reset request that tells the caller when no active account matches.
PasswordResetRequestOutcome_not_found(A, O, email, env) ==
    LET value == email_lower(email)
        found == {u \in DOMAIN A : A[u].email = value /\ A[u].is_active}
    IN IF ~EmailField(email)
       THEN [accounts |-> A, outbox |-> O,
             resp |-> Response("password_reset", Anonymous, None, 400, {"email"}, {})]
       ELSE IF found = {}
       THEN [accounts |-> A, outbox |-> O,
             resp |-> NotFound("password_reset", Anonymous, None)]
       ELSE LET u == CHOOSE x \in found : TRUE
                result == _send_email(env)
                message == [to |-> A[u].email, kind |-> "password_reset",
                            token |-> make_token(A, u)]
            IN [accounts |-> A, outbox |-> Delivered(O, result, message),
                resp |-> Response("password_reset", Anonymous, None, 200, {}, {SUCCESS_MSG})]

\* PasswordResetRequestView.post
PasswordResetRequestOutcome(A, O, email, env) ==
    LET value == email_lower(email)
        found == {u \in DOMAIN A : A[u].email = value /\ A[u].is_active}
    IN IF ~EmailField(email)
       THEN [accounts |-> A, outbox |-> O,
             resp |-> Response("password_reset", Anonymous, None, 400, {"email"}, {})]
       ELSE IF found = {}
       THEN [accounts |-> A, outbox |-> O,
             resp |-> Response("password_reset", Anonymous, None, 200, {}, {SUCCESS_MSG})]
       ELSE LET u == CHOOSE x \in found : TRUE
                result == _send_email(env)
                message == [to |-> A[u].email, kind |-> "password_reset",
                            token |-> make_token(A, u)]
            IN IF result = "raise"
               THEN [accounts |-> A, outbox |-> O,
                     resp |-> Response("password_reset", Anonymous, None, 500, {"detail"}, {})]
               ELSE [accounts |-> A, outbox |-> Delivered(O, result, message),
                     resp |-> Response("password_reset", Anonymous, None, 200, {},
                                       {SUCCESS_MSG})]

PasswordResetRequest(email, env) ==
    /\ LET o == PasswordResetRequestOutcome(accounts, outbox, email, env)
       IN /\ outbox' = o.outbox
          /\ resp' = o.resp
    /\ request' = [email |-> email]
    /\ UNCHANGED <<categories, tasks, next_category_id, next_task_id, was_in_progress, today>>
    /\ UNCHANGED <<accounts, next_salt, used_tokens>>
    /\ UNCHANGED flight_vars

\* The admin site's change form: is_active.
SetActive(u, active) ==
    /\ u \in DOMAIN accounts
    /\ accounts' = [accounts EXCEPT ![u].is_active = active]
    /\ resp' = Response("user_set_active", u, None, 302, {}, {})
    /\ request' = [is_active |-> active]
    /\ UNCHANGED <<categories, tasks, next_category_id, next_task_id, was_in_progress, today>>
    /\ UNCHANGED <<next_salt, outbox, used_tokens>>
    /\ UNCHANGED flight_vars

MaxResets == 2

Passwords == {"good", "weak"}

\* min_length=8 and the AUTH_PASSWORD_VALIDATORS
validate_password(raw) == raw # "weak"

Uids == Users \cup {"Z"}

\* A token nobody was sent.
BogusToken == [user |-> "A", hash |-> make_password("guess", 0)]

\* A token check that looks at the user only, not at the password hash.
check_token_any_hash(A, u, token) == token.user = u

\* default_token_generator.check_token: the token is recomputed from the
\* user's current state and compared.
check_token(A, u, token) == token.user = u /\ token.hash = A[u].password

\* PasswordResetConfirmView.post
PasswordResetConfirmOutcome(A, salt, req) ==
    LET ferrors == (IF ~validate_password(req.new_password) THEN {"new_password"} ELSE {})
                   \cup (IF ~validate_password(req.new_password_confirm)
                         THEN {"new_password_confirm"} ELSE {})
        errors == IF ferrors # {} THEN ferrors
                  ELSE IF req.new_password # req.new_password_confirm
                  THEN {"new_password_confirm"}
                  ELSE {}
    IN IF errors # {}
       THEN [accounts |-> A, next_salt |-> salt,
             resp |-> Response("password_reset_confirm", Anonymous, None, 400, errors, {})]
       ELSE IF req.uid \notin DOMAIN A
       THEN [accounts |-> A, next_salt |-> salt,
             resp |-> Response("password_reset_confirm", Anonymous, None, 400, {"detail"},
                               {"Invalid reset link."})]
       ELSE IF ~check_token(A, req.uid, req.token)
       THEN [accounts |-> A, next_salt |-> salt,
             resp |-> Response("password_reset_confirm", Anonymous, None, 400, {"detail"},
                               {"Reset link has expired or already been used."})]
       ELSE [accounts |-> [A EXCEPT ![req.uid].password =
                                       make_password(req.new_password, salt)],
             next_salt |-> salt + 1,
             resp |-> Response("password_reset_confirm", Anonymous, None, 200, {},
                               {"Password has been reset successfully."})]

\* used_tokens records the tokens a reset has succeeded with.
PasswordResetConfirm(req) ==
    /\ LET o == PasswordResetConfirmOutcome(accounts, next_salt, req)
       IN /\ o.resp.code = 200 => next_salt <= MaxResets
          /\ accounts' = o.accounts
          /\ next_salt' = o.next_salt
          /\ resp' = o.resp
          /\ used_tokens' = IF o.resp.code = 200
                            THEN used_tokens \cup {req.token}
                            ELSE used_tokens
    /\ request' = req
    /\ UNCHANGED <<categories, tasks, next_category_id, next_task_id, was_in_progress, today>>
    /\ UNCHANGED outbox
    /\ UNCHANGED flight_vars

\* The confirm requests a caller can build from a set of tokens.
ConfirmReqs(tokens) ==
    {[uid |-> u, token |-> t, new_password |-> p, new_password_confirm |-> q] :
        u \in Uids, t \in tokens, p \in Passwords, q \in Passwords}

\* The tokens of the reset links that were delivered.
Tokens(O) == {m.token : m \in O}

NextReset ==
    \/ \E email \in ResetEmails, env \in SendEnvs : PasswordResetRequest(email, env)
    \/ \E req \in ConfirmReqs(Tokens(outbox) \cup {BogusToken}) : PasswordResetConfirm(req)
    \/ \E u \in Users, active \in BOOLEAN : SetActive(u, active)

SpecReset == Init /\ [][NextReset]_vars

(***************************************************************************)
(* C17: for every well-formed address, the response of the password-reset  *)
(* request (200 and the same detail message) is the same whether the       *)
(* address belongs to an active account, to a deactivated account or to no *)
(* account, and whatever the mail integration does; a reset email is       *)
(* dispatched only for an active account.                                  *)
(***************************************************************************)
AccountVariants ==
    {accounts}
    \cup {[accounts EXCEPT ![u].is_active = b] : u \in DOMAIN accounts, b \in BOOLEAN}
    \cup {Remove(accounts, u) : u \in DOMAIN accounts}

C17_ResetRequestUniform ==
    \A email \in ResetEmails :
        EmailField(email) =>
            /\ LET answer == PasswordResetRequestOutcome(accounts, outbox, email, "sent").resp
               IN \A A1 \in AccountVariants, env \in SendEnvs :
                     PasswordResetRequestOutcome(A1, outbox, email, env).resp = answer
            /\ \A env \in SendEnvs :
                  LET o == PasswordResetRequestOutcome(accounts, outbox, email, env)
                  IN /\ o.resp.code = 200
                     /\ o.resp.data = {SUCCESS_MSG}
                     /\ \A m \in o.outbox \ outbox :
                           \E u \in DOMAIN accounts :
                              /\ accounts[u].is_active
                              /\ accounts[u].email = email_lower(email)
                              /\ m.to = accounts[u].email

\* A reset was requested for the address of a deactivated account, after a
\* reset link was mailed to an active one: the answer is the 200 message.
C17_Witness ==
    /\ resp.op = "password_reset"
    /\ resp.code = 200
    /\ resp.data = {SUCCESS_MSG}
    /\ DOMAIN request = {"email"}
    /\ \E u \in DOMAIN accounts :
          /\ ~accounts[u].is_active
          /\ accounts[u].email = email_lower(request.email)
    /\ outbox # {}

(***************************************************************************)
(* C18: a password-reset token is single-use: once a reset-confirm with a  *)
(* token has succeeded, every later reset-confirm with that token, for any *)
(* uid and any new password, is rejected with 400 and changes no password. *)
(***************************************************************************)
C18_TokenSingleUse ==
    \A req \in ConfirmReqs(used_tokens) :
        LET o == PasswordResetConfirmOutcome(accounts, next_salt, req)
        IN /\ o.resp.code = 400
           /\ o.accounts = accounts

\* A well-formed confirm for the token's own user was rejected as expired or
\* used, with a token that a reset had succeeded with before.
C18_Witness ==
    /\ resp.op = "password_reset_confirm"
    /\ resp.code = 400
    /\ resp.data = {"Reset link has expired or already been used."}
    /\ DOMAIN request = {"uid", "token", "new_password", "new_password_confirm"}
    /\ request.token \in used_tokens
    /\ request.uid = request.token.user
    /\ accounts[request.uid].password.raw = request.new_password

(***************************************************************************)
(* Registration (RegisterView) and the profile (ProfileView,               *)
(* ProfileImageUploadView).  An account is keyed by its username.          *)
(***************************************************************************)
Usernames == {"A", "C"}

RegisterEmails == {EmailUnknown, EmailAUpper, EmailMalformed}

RegisterReqs ==
    {[username |-> n, email |-> e, password |-> p, password_confirm |-> q] :
        n \in Usernames, e \in RegisterEmails, p \in Passwords, q \in Passwords}

\* RegisterSerializer: field-level errors, then the object-level validate.
RegisterErrors(A, req) ==
    LET value == email_lower(req.email)
        ferrors ==
            (IF req.username \in DOMAIN A THEN {"username"} ELSE {})
            \cup (IF ~EmailField(req.email)
                     \/ \E u \in DOMAIN A : A[u].email = req.email \/ A[u].email = value
                  THEN {"email"} ELSE {})
            \cup (IF ~validate_password(req.password) THEN {"password"} ELSE {})
            \cup (IF ~validate_password(req.password_confirm)
                  THEN {"password_confirm"} ELSE {})
    IN IF ferrors # {} THEN ferrors
       ELSE IF req.password # req.password_confirm THEN {"password_confirm"}
       ELSE {}

\* RefreshToken.for_user
TokenPair(u) == [user |-> u, tokens |-> {"access", "refresh"}]

\* RegisterView.create: the user row is saved before the welcome email is
\* sent, and the request does not run in a transaction.
RegisterOutcome(A, O, salt, req, env) ==
    LET errors == RegisterErrors(A, req)
    IN IF errors # {}
       THEN [accounts |-> A, outbox |-> O, next_salt |-> salt,
             resp |-> Response("register", Anonymous, None, 400, errors, {})]
       ELSE LET user == create_user(email_lower(req.email), req.password, salt)
                A2 == A @@ (req.username :> user)
                result == _send_email(env)
                message == [to |-> user.email, kind |-> "welcome"]
            IN IF result = "raise"
               THEN [accounts |-> A2, outbox |-> O, next_salt |-> salt + 1,
                     resp |-> Response("register", Anonymous, None, 500, {"detail"}, {})]
               ELSE [accounts |-> A2, outbox |-> Delivered(O, result, message),
                     next_salt |-> salt + 1,
                     resp |-> Response("register", Anonymous, None, 201, {},
                                       {TokenPair(req.username)})]

Register(req, env) ==
    /\ LET o == RegisterOutcome(accounts, outbox, next_salt, req, env)
       IN /\ accounts' = o.accounts
          /\ outbox' = o.outbox
          /\ next_salt' = o.next_salt
          /\ resp' = o.resp
    /\ request' = req
    /\ UNCHANGED <<categories, tasks, next_category_id, next_task_id, was_in_progress, today>>
    /\ UNCHANGED used_tokens
    /\ UNCHANGED flight_vars

\* cloudinary_utils: the accepted content types and the size limit in bytes.
ALLOWED_IMAGE_TYPES == {"image/jpeg", "image/png", "image/gif", "image/webp"}

MAX_IMAGE_SIZE == 5 * 1024 * 1024

ContentTypes == {"image/png", "text/plain"}

Sizes == {1024, MAX_IMAGE_SIZE, MAX_IMAGE_SIZE + 1}

\* A multipart body with or without the "image" part.
UploadReqs ==
    {[caption |-> "me"]}
    \cup {[image |-> [content_type |-> c, size |-> n]] : c \in ContentTypes, n \in Sizes}

\* What the image host does with an upload.
CloudEnvs == {"uploaded", "failed"}

\* TRUE when the file passes the pre-upload checks.
validate_image(image_file) ==
    /\ image_file.content_type \in ALLOWED_IMAGE_TYPES
    /\ ~(image_file.size > MAX_IMAGE_SIZE)

\* result["secure_url"]: the image is stored under the user's id.
secure_url(u) ==
    IF u = "A" THEN "https://res.cloudinary.com/profiles/A"
    ELSE "https://res.cloudinary.com/profiles/B"

\* upload_profile_image: the URL, or the name of the exception raised.
upload_profile_image(image_file, u, env) ==
    IF ~validate_image(image_file) THEN "ImageValidationError"
    ELSE IF env = "uploaded" THEN secure_url(u)
    ELSE "RuntimeError"

\* ProfileImageUploadView.post
ProfileImageUploadOutcome(A, u, req, env) ==
    IF ~Has(req, "image")
    THEN [accounts |-> A,
          resp |-> Response("profile_upload_image", u, None, 400, {"detail"}, {})]
    ELSE LET url == upload_profile_image(req.image, u, env)
         IN IF url = "ImageValidationError"
            THEN [accounts |-> A,
                  resp |-> Response("profile_upload_image", u, None, 400, {"detail"}, {})]
            ELSE IF url = "RuntimeError"
            THEN [accounts |-> A,
                  resp |-> Response("profile_upload_image", u, None, 500, {"detail"}, {})]
            ELSE [accounts |-> [A EXCEPT ![u].profile_image = url],
                  resp |-> Response("profile_upload_image", u, None, 200, {}, {url})]

ProfileImageUpload(u, req, env) ==
    /\ Authenticated(u)
    /\ LET o == ProfileImageUploadOutcome(accounts, u, req, env)
       IN /\ accounts' = o.accounts
          /\ resp' = o.resp
    /\ request' = req
    /\ UNCHANGED <<categories, tasks, next_category_id, next_task_id, was_in_progress, today>>
    /\ UNCHANGED <<next_salt, outbox, used_tokens>>
    /\ UNCHANGED flight_vars

ExternalUrl == "https://example.org/me.png"

NotUrl == "me.png"

\* The writable fields of UserProfileSerializer sent by the clients.
ProfilePatchReqs ==
    {[bio |-> "hi"]}
    \cup {[profile_image |-> v] : v \in {ExternalUrl, NoImage, NotUrl}}

\* serializers.URLField(allow_blank=True) of the model's URLField(blank=True)
URLField(value) == value = NoImage \/ value = ExternalUrl

\* ProfileView.partial_update with UserProfileSerializer: profile_image is
\* among the fields and not among the read_only_fields.
ProfilePatchOutcome(A, u, req) ==
    LET errors == IF Has(req, "profile_image") /\ ~URLField(req.profile_image)
                  THEN {"profile_image"} ELSE {}
        row == [A[u] EXCEPT !.bio = Get(req, "bio", A[u].bio),
                            !.profile_image = Get(req, "profile_image", A[u].profile_image)]
    IN IF errors # {}
       THEN [accounts |-> A, resp |-> Response("profile_patch", u, None, 400, errors, {})]
       ELSE [accounts |-> [A EXCEPT ![u] = row],
             resp |-> Response("profile_patch", u, None, 200, {},
                               {[bio |-> row.bio, profile_image |-> row.profile_image]})]

ProfilePatch(u, req) ==
    /\ Authenticated(u)
    /\ LET o == ProfilePatchOutcome(accounts, u, req)
       IN /\ accounts' = o.accounts
          /\ resp' = o.resp
    /\ request' = req
    /\ UNCHANGED <<categories, tasks, next_category_id, next_task_id, was_in_progress, today>>
    /\ UNCHANGED <<next_salt, outbox, used_tokens>>
    /\ UNCHANGED flight_vars

NextProfile ==
    \/ \E req \in RegisterReqs, env \in SendEnvs : Register(req, env)
    \/ \E u \in Users, req \in UploadReqs, env \in CloudEnvs : ProfileImageUpload(u, req, env)
    \/ \E u \in Users, req \in ProfilePatchReqs : ProfilePatch(u, req)

SpecProfile == Init /\ [][NextProfile]_vars

(***************************************************************************)
(* C19: a valid registration creates the user and returns 201 with a token *)
(* pair whether the welcome email is sent or not: the send helper returns  *)
(* True or False, never raises, and the registration is not aborted.       *)
(***************************************************************************)
C19_RegisterSurvivesEmailFailure ==
    \A req \in RegisterReqs, env \in SendEnvs :
        RegisterErrors(accounts, req) = {} =>
            LET o == RegisterOutcome(accounts, outbox, next_salt, req, env)
            IN /\ _send_email(env) \in {"True", "False"}
               /\ o.resp.code = 201
               /\ o.resp.data = {TokenPair(req.username)}
               /\ req.username \in DOMAIN o.accounts
               /\ o.accounts[req.username].email = email_lower(req.email)
               /\ \A u \in DOMAIN accounts : o.accounts[u] = accounts[u]

\* A registration answered 201 although no welcome email went out.
C19_Witness ==
    /\ resp.op = "register"
    /\ resp.code = 201
    /\ DOMAIN request = {"username", "email", "password", "password_confirm"}
    /\ request.username \in DOMAIN accounts
    /\ \A m \in outbox : m.kind # "welcome"

(***************************************************************************)
(* C20: the stored profile_image of a user changes only on a successful    *)
(* image upload, and then equals the URL returned to the caller; an upload *)
(* answered 400 or 500 leaves the stored profile_image unchanged.          *)
(***************************************************************************)
C20_ImageChangesOnlyOnUpload ==
    [][/\ \A u \in DOMAIN accounts :
             accounts'[u].profile_image # accounts[u].profile_image =>
                 /\ resp'.op = "profile_upload_image"
                 /\ resp'.code = 200
                 /\ resp'.user = u
                 /\ resp'.data = {accounts'[u].profile_image}
       /\ (resp'.op = "profile_upload_image" /\ resp'.code \in {400, 500}) =>
             accounts' = accounts]_vars

(***************************************************************************)
(* Timestamps: the clock of timezone.now() moves on between requests while *)
(* one principal creates and edits a task and creates and deletes its      *)
(* category.                                                               *)
(***************************************************************************)
MaxNow == 1

Clock ==
    /\ now < MaxNow
    /\ now' = now + 1
    /\ UNCHANGED <<categories, tasks, next_category_id, next_task_id, was_in_progress,
                   today, resp, stamps, inflight>>
    /\ UNCHANGED account_vars

Retitled == "X"

NextStamp ==
    \/ \E req \in OwnCategoryReqs : CategoryCreate(Owner, req)
    \/ \E id \in CategoryIds : CategoryDelete(Owner, id)
    \/ \E req \in OwnTaskCreateReqs : LifeTaskCreate(req)
    \/ \E id \in LifeTaskIds : TaskPatch(Owner, id, [title |-> Retitled])
    \/ Clock

SpecStamp == Init /\ [][NextStamp]_vars

(***************************************************************************)
(* C25: whenever a stored field of a task changes from one store state to  *)
(* the next, by a PATCH or by the null-ing of its category reference when  *)
(* its category is deleted, the task's updated_at becomes the time of the  *)
(* change; created_at never changes and updated_at never decreases.        *)
(***************************************************************************)
C25_UpdatedAtRefreshed ==
    [][\A t \in DOMAIN tasks \cap DOMAIN tasks' :
          /\ tasks'[t] # tasks[t] => stamps'[t].updated_at = now'
          /\ stamps'[t].created_at = stamps[t].created_at
          /\ stamps'[t].updated_at >= stamps[t].updated_at]_vars

(***************************************************************************)
(* C26: a successful PATCH on a task changes exactly the fields the        *)
(* request names (and updated_at); a PATCH without a status field gets no  *)
(* status error, succeeds from any current status when it only renames the *)
(* task, and leaves the status unchanged; no step changes the id, the      *)
(* owner or created_at of a stored task.                                   *)
(***************************************************************************)
TaskFields == {"title", "status", "priority", "due_date", "category"}

FieldPatchReqs ==
    {[title |-> Retitled]}
    \cup {[status |-> s] : s \in Status}
    \cup {[priority |-> "high"]}

NextField ==
    \/ \E req \in {[title |-> t] : t \in Titles} : LifeTaskCreate(req)
    \/ \E id \in LifeTaskIds, req \in FieldPatchReqs : TaskPatch(Owner, id, req)
    \/ Clock

SpecField == Init /\ [][NextField]_vars

C26_PatchChangesNamedFields ==
    [][/\ \A id \in DOMAIN tasks, req \in FieldPatchReqs :
             LET o == TaskPatchOutcome(categories, tasks, Owner, id, req, today)
             IN /\ ~Has(req, "status") =>
                      /\ "status" \notin o.resp.errors
                      /\ o.tasks[id].status = tasks[id].status
                /\ req = [title |-> Retitled] => o.resp.code = 200
                /\ o.resp.code = 200 =>
                      /\ DOMAIN o.tasks = DOMAIN tasks
                      /\ \A f \in TaskFields :
                            o.tasks[id][f] = IF Has(req, f) THEN req[f] ELSE tasks[id][f]
                      /\ o.tasks[id].user = tasks[id].user
                      /\ \A t \in DOMAIN tasks \ {id} : o.tasks[t] = tasks[t]
       /\ \A t \in DOMAIN tasks \cap DOMAIN tasks' :
             /\ tasks'[t].user = tasks[t].user
             /\ stamps'[t].created_at = stamps[t].created_at]_vars

\* A PATCH was answered 200 on a task that has been renamed and has reached
\* done: the two fields were set by different requests and both are stored.
C26_Witness ==
    /\ resp.op = "task_patch"
    /\ resp.code = 200
    /\ resp.id \in DOMAIN tasks
    /\ tasks[resp.id].title = Retitled
    /\ tasks[resp.id].status = "done"
    /\ stamps[resp.id].updated_at > stamps[resp.id].created_at

(***************************************************************************)
(* Requests that fail validation, next to requests that pass: the owner    *)
(* works on the last day of the calendar, so that an earlier due date is   *)
(* past, and the other principal owns a category.                          *)
(***************************************************************************)
Bogus == "archived"

RejectTaskCreateReqs ==
    {[title |-> t] : t \in Titles \cup {""}}
    \cup {[title |-> t, status |-> Bogus] : t \in Titles}
    \cup {[title |-> t, priority |-> Bogus] : t \in Titles}
    \cup {[title |-> t, due_date |-> 0] : t \in Titles}
    \cup {[title |-> t, category |-> c] : t \in Titles, c \in CategoryIds}

RejectTaskPatchReqs ==
    {[title |-> t] : t \in {Retitled, ""}}
    \cup {[status |-> s] : s \in Status}
    \cup {[title |-> Retitled, status |-> s] : s \in Status \cup {Bogus}}
    \cup {[title |-> Retitled, priority |-> Bogus]}
    \cup {[title |-> Retitled, category |-> c] : c \in CategoryIds}

InitReject ==
    /\ categories = <<>>
    /\ tasks = <<>>
    /\ next_category_id = 1
    /\ next_task_id = 1
    /\ was_in_progress = {}
    /\ today = MaxDay
    /\ resp = Response("none", "A", None, 0, {}, {})
    /\ accounts = [u \in Users |-> create_user(IF u = "A" THEN EmailA ELSE EmailB, "old", 0)]
    /\ next_salt = 1
    /\ outbox = {}
    /\ used_tokens = {}
    /\ request = <<>>
    /\ now = 0
    /\ stamps = <<>>
    /\ inflight = <<>>

NextReject ==
    \/ \E req \in OwnCategoryReqs : CategoryCreate("B", req)
    \/ \E req \in RejectTaskCreateReqs : LifeTaskCreate(req)
    \/ \E id \in LifeTaskIds, req \in RejectTaskPatchReqs : TaskPatch(Owner, id, req)
    \/ Clock

SpecReject == InitReject /\ [][NextReject]_vars

(***************************************************************************)
(* C27: a task create or PATCH answered 400 leaves the store as it was: no *)
(* row is created, no field of any task changes, valid fields of the       *)
(* rejected request included, and no updated_at is refreshed.  Each of the *)
(* listed reasons (empty title, invalid status or priority value, past due *)
(* date on create, another owner's category, illegal transition) is        *)
(* answered 400.                                                           *)
(***************************************************************************)
Rejected(o) == o.resp.code = 400

RejectedForReason ==
    /\ \A req \in RejectTaskCreateReqs :
          (\/ req.title = ""
           \/ Has(req, "status") \/ Has(req, "priority")
           \/ Has(req, "due_date")
           \/ (Has(req, "category") /\ req.category \in DOMAIN categories))
          => Rejected(TaskCreateOutcome(categories, tasks, next_task_id, Owner, req, today))
    /\ \A id \in DOMAIN tasks, req \in RejectTaskPatchReqs :
          (\/ (Has(req, "title") /\ req.title = "")
           \/ Has(req, "priority")
           \/ (Has(req, "category") /\ req.category \in DOMAIN categories)
           \/ (Has(req, "status") /\ req.status \notin VALID_TRANSITIONS[tasks[id].status]))
          => Rejected(TaskPatchOutcome(categories, tasks, Owner, id, req, today))

C27_RejectedLeavesStore ==
    /\ []RejectedForReason
    /\ [][(resp'.op \in {"task_create", "task_patch"} /\ resp'.code = 400) =>
             /\ tasks' = tasks
             /\ stamps' = stamps
             /\ categories' = categories
             /\ next_task_id' = next_task_id]_vars

\* A PATCH naming a new title and the other principal's category was answered
\* 400 after the clock moved: the task keeps its title and its updated_at.
C27_Witness ==
    /\ resp.op = "task_patch"
    /\ resp.code = 400
    /\ resp.errors = {"category"}
    /\ resp.id \in DOMAIN tasks
    /\ tasks[resp.id].title # Retitled
    /\ stamps[resp.id].updated_at < now

(***************************************************************************)
(* Requests whose body names the other principal as user: user is not a    *)
(* field of either serializer, the owner comes from request.user.          *)
(***************************************************************************)
Other(u) == CHOOSE v \in Users : v # u

NextOwner ==
    \/ \E u \in Users, n \in {Work, Home} :
          CategoryCreate(u, [name |-> n, user |-> Other(u)])
    \/ \E u \in Users, id \in CategoryIds :
          CategoryPatch(u, id, [name |-> Home, user |-> Other(u)])
    \/ \E u \in Users, t \in Titles :
          TaskCreate(u, [title |-> t, user |-> Other(u)])
    \/ \E u \in Users, id \in TaskIds :
          TaskPatch(u, id, [status |-> "in_progress", user |-> Other(u)])

SpecOwner == Init /\ [][NextOwner]_vars

(***************************************************************************)
(* C29: the owner of every category and task is the principal whose        *)
(* request created it, whatever user the body names, and no step changes   *)
(* the owner of an existing row.                                           *)
(***************************************************************************)
C29_OwnerIsCreator ==
    [][/\ \A c \in DOMAIN categories' \ DOMAIN categories :
             /\ resp'.op = "category_create"
             /\ categories'[c].user = resp'.user
       /\ \A t \in DOMAIN tasks' \ DOMAIN tasks :
             /\ resp'.op = "task_create"
             /\ tasks'[t].user = resp'.user
       /\ \A c \in DOMAIN categories \cap DOMAIN categories' :
             categories'[c].user = categories[c].user
       /\ \A t \in DOMAIN tasks \cap DOMAIN tasks' :
             tasks'[t].user = tasks[t].user]_vars

\* Both principals own rows, and a PATCH whose body names the other principal
\* was stored: a renamed category and a started task keep their owner.
C29_Witness ==
    /\ \E c \in DOMAIN categories : categories[c].name = Home /\ categories[c].user = "A"
    /\ \E t \in DOMAIN tasks : tasks[t].status = "in_progress" /\ tasks[t].user = "B"
    /\ resp.op = "task_patch"
    /\ resp.code = 200
    /\ resp.user = "B"

(***************************************************************************)
(* Requests that break two rules at once: a category with a malformed      *)
(* colour and a name the owner already uses, a task PATCH naming the other *)
(* principal's category together with a status.                            *)
(***************************************************************************)
OrderCategoryReqs ==
    {[name |-> n] : n \in {Work, work}}
    \cup {[name |-> n, colour |-> c] : n \in {Work, work}, c \in {Red, NotHex}}

OrderTaskPatchReqs ==
    {[status |-> s] : s \in Status}
    \cup {[category |-> c] : c \in CategoryIds}
    \cup {[status |-> s, category |-> c] : s \in Status, c \in CategoryIds}

NextOrder ==
    \/ \E u \in Users, req \in OrderCategoryReqs : CategoryCreate(u, req)
    \/ \E req \in {[title |-> t] : t \in Titles} : LifeTaskCreate(req)
    \/ \E id \in LifeTaskIds, req \in OrderTaskPatchReqs : TaskPatch(Owner, id, req)

SpecOrder == Init /\ [][NextOrder]_vars

TwoRulesBroken(u, req) ==
    /\ Has(req, "colour")
    /\ ~validate_colour(req.colour)
    /\ ~validate_name(categories, req.name, u, None)

(***************************************************************************)
(* C30, as stated: a category request with a malformed colour and a name   *)
(* duplicating one of the owner's categories is rejected with the colour   *)
(* error only, no name error is produced.                                  *)
(***************************************************************************)
C30_ColourBeforeDuplicateName ==
    \A u \in Users, req \in OrderCategoryReqs :
        TwoRulesBroken(u, req) =>
            LET o == CategoryCreateOutcome(categories, tasks, next_category_id, u, req)
            IN o.resp.code = 400 /\ o.resp.errors = {"colour"}

(***************************************************************************)
(* C30, amended: the duplicate-name check is itself a field-level rule; a  *)
(* category request with a malformed colour and a duplicate name is        *)
(* rejected with both the colour error and the name error, and a task      *)
(* PATCH that fails a field-level rule (category of another owner) is      *)
(* rejected with that error only, its status is not checked against the    *)
(* transition table.                                                       *)
(***************************************************************************)
C30_FieldRulesBeforeObjectRule ==
    /\ \A u \in Users, req \in OrderCategoryReqs :
          TwoRulesBroken(u, req) =>
              LET o == CategoryCreateOutcome(categories, tasks, next_category_id, u, req)
              IN /\ o.resp.code = 400
                 /\ o.resp.errors = {"name", "colour"}
                 /\ o.categories = categories
    /\ \A id \in DOMAIN tasks, req \in OrderTaskPatchReqs :
          (/\ Has(req, "category")
           /\ req.category \in DOMAIN categories
           /\ categories[req.category].user # Owner)
          => LET o == TaskPatchOutcome(categories, tasks, Owner, id, req, today)
             IN /\ o.resp.code = 400
                /\ o.resp.errors = {"category"}
                /\ o.tasks = tasks

\* A category request was rejected for its colour and its name together,
\* while a task is in todo and the other principal owns a category: a PATCH
\* of that task to done naming that category breaks a field rule and the
\* transition table.
C30_Witness ==
    /\ resp.op = "category_create"
    /\ resp.code = 400
    /\ resp.errors = {"name", "colour"}
    /\ \E t \in DOMAIN tasks, c \in DOMAIN categories :
          /\ tasks[t].user = Owner
          /\ tasks[t].status = "todo"
          /\ categories[c].user # Owner

(***************************************************************************)
(* Interleaved requests.  The views run outside a transaction and take no  *)
(* row lock: UpdateModelMixin.update reads the row (get_object), validates *)
(* the body against the instance it read, and serializer.save() ends in    *)
(* Model.save(), an UPDATE of every column from that instance.  A request  *)
(* that has read and validated waits in inflight until its write; between  *)
(* the two steps the other worker may run.                                 *)
(***************************************************************************)
Workers == {"w1", "w2"}

Idle(w) == w \notin DOMAIN inflight

Done(w) == [v \in DOMAIN inflight \ {w} |-> inflight[v]]

\* get_object + is_valid of one PATCH: a rejected request is answered at once.
PatchRead(w, u, id, req) ==
    /\ Idle(w)
    /\ LET o == TaskPatchOutcome(categories, tasks, u, id, req, today)
       IN IF o.resp.code = 200
          THEN /\ inflight' = inflight @@
                      (w :> [op |-> "task_patch", id |-> id, req |-> req,
                             row |-> o.tasks[id], resp |-> o.resp])
               /\ UNCHANGED resp
          ELSE /\ resp' = o.resp
               /\ UNCHANGED inflight
    /\ UNCHANGED <<categories, tasks, next_category_id, next_task_id, was_in_progress,
                   today, now, stamps>>
    /\ UNCHANGED account_vars

\* serializer.save() of the same PATCH: the whole row of the instance is written.
PatchWrite(w) ==
    /\ ~Idle(w)
    /\ inflight[w].op = "task_patch"
    /\ LET f == inflight[w]
       IN /\ tasks' = [tasks EXCEPT ![f.id] = f.row]
          /\ stamps' = Saved(stamps, f.id, now)
          /\ resp' = f.resp
    /\ was_in_progress' = Visited(tasks', was_in_progress)
    /\ inflight' = Done(w)
    /\ UNCHANGED <<categories, next_category_id, next_task_id, today, now>>
    /\ UNCHANGED account_vars

RacePatchReqs ==
    {[title |-> Retitled]}
    \cup {[status |-> s] : s \in Status}

NextTaskRace ==
    \/ \E req \in {[title |-> t] : t \in Titles} : LifeTaskCreate(req)
    \/ \E w \in Workers, id \in LifeTaskIds, req \in RacePatchReqs :
          PatchRead(w, Owner, id, req)
    \/ \E w \in Workers : PatchWrite(w)

SpecTaskRace == Init /\ [][NextTaskRace]_vars

(***************************************************************************)
(* C21: when PATCH requests on the same task interleave, every change of   *)
(* the stored status from one store state to the next is a pair of the     *)
(* transition table.                                                       *)
(***************************************************************************)
C21_InterleavedStatusTransitions ==
    [][\A t \in DOMAIN tasks \cap DOMAIN tasks' :
          tasks'[t].status \in TransitionTable[tasks[t].status]]_vars

(***************************************************************************)
(* C28: when two PATCH requests on the same task name disjoint fields,     *)
(* neither write puts back the value it read for a field it did not name:  *)
(* a write changes no field outside its request, so both take effect.      *)
(***************************************************************************)
C28_DisjointPatchesBothApply ==
    [][\A w \in DOMAIN inflight \ DOMAIN inflight' :
          \A f \in TaskFields :
              ~Has(inflight[w].req, f) =>
                  tasks'[inflight[w].id][f] = tasks[inflight[w].id][f]]_vars

(***************************************************************************)
(* Interleaved category writes.  CategorySerializer.validate_name looks for *)
(* a row of the owner with the same name ignoring case; the INSERT or       *)
(* UPDATE runs later, and the store refuses it only when name and user      *)
(* match exactly (UniqueConstraint).  The IntegrityError of a refused write *)
(* is caught nowhere: the request ends as a 500.                            *)
(***************************************************************************)
\* is_valid of a create: a rejected request is answered at once.
CategoryCheck(w, u, req) ==
    /\ Idle(w)
    /\ LET errors == CategoryErrors(categories, u, req, None)
       IN IF errors = {}
          THEN /\ inflight' = inflight @@
                      (w :> [op |-> "category_create", user |-> u, id |-> None, req |-> req])
               /\ UNCHANGED resp
          ELSE /\ resp' = Response("category_create", u, None, 400, errors, {})
               /\ UNCHANGED inflight
    /\ UNCHANGED <<categories, tasks, next_category_id, next_task_id, was_in_progress,
                   today, now, stamps>>
    /\ UNCHANGED account_vars

\* perform_create: serializer.save(user=request.user), the INSERT.
CategoryInsert(w) ==
    /\ ~Idle(w)
    /\ inflight[w].op = "category_create"
    /\ next_category_id <= MaxCategories
    /\ LET f == inflight[w]
           row == [name |-> f.req.name,
                   colour |-> Get(f.req, "colour", COLOUR_DEFAULT),
                   user |-> f.user]
       IN IF unique_category_per_user(categories, row.name, row.user, None)
          THEN /\ categories' = categories @@ (next_category_id :> row)
               /\ next_category_id' = next_category_id + 1
               /\ resp' = Response("category_create", f.user, next_category_id, 201, {},
                                   {[id |-> next_category_id, name |-> row.name,
                                     colour |-> row.colour, task_count |-> 0]})
          ELSE /\ resp' = Response("category_create", f.user, None, 500, {}, {})
               /\ UNCHANGED <<categories, next_category_id>>
    /\ inflight' = Done(w)
    /\ UNCHANGED <<tasks, next_task_id, was_in_progress, today, now, stamps>>
    /\ UNCHANGED account_vars

\* get_object + is_valid of a rename.
CategoryRenameCheck(w, u, id, req) ==
    /\ Idle(w)
    /\ Category_get_object(categories, u, id) = 200
    /\ LET errors == CategoryErrors(categories, u, req, id)
       IN IF errors = {}
          THEN /\ inflight' = inflight @@
                      (w :> [op |-> "category_patch", user |-> u, id |-> id, req |-> req])
               /\ UNCHANGED resp
          ELSE /\ resp' = Response("category_patch", u, id, 400, errors, {})
               /\ UNCHANGED inflight
    /\ UNCHANGED <<categories, tasks, next_category_id, next_task_id, was_in_progress,
                   today, now, stamps>>
    /\ UNCHANGED account_vars

\* serializer.save() of a rename, the UPDATE.
CategoryUpdate(w) ==
    /\ ~Idle(w)
    /\ inflight[w].op = "category_patch"
    /\ LET f == inflight[w]
       IN IF unique_category_per_user(categories, f.req.name, f.user, f.id)
          THEN LET C2 == [categories EXCEPT ![f.id].name = f.req.name]
               IN /\ categories' = C2
                  /\ resp' = Response("category_patch", f.user, f.id, 200, {},
                                      {CategoryData(C2, tasks, f.id)})
          ELSE /\ resp' = Response("category_patch", f.user, f.id, 500, {}, {})
               /\ UNCHANGED categories
    /\ inflight' = Done(w)
    /\ UNCHANGED <<tasks, next_category_id, next_task_id, was_in_progress, today, now, stamps>>
    /\ UNCHANGED account_vars

NextCategoryRace ==
    \/ \E w \in Workers, n \in {Work, work} : CategoryCheck(w, Owner, [name |-> n])
    \/ \E w \in Workers : CategoryInsert(w)
    \/ \E w \in Workers, id \in CategoryIds, n \in {Work, work} :
          CategoryRenameCheck(w, Owner, id, [name |-> n])
    \/ \E w \in Workers : CategoryUpdate(w)

SpecCategoryRace == Init /\ [][NextCategoryRace]_vars

(***************************************************************************)
(* C22: when category creates and renames of one owner interleave, the     *)
(* stored categories of that owner never contain two names equal ignoring  *)
(* case.                                                                   *)
(***************************************************************************)
C22_InterleavedUniqueNames ==
    \A u \in Users :
        \A c \in Category_get_queryset(categories, u), d \in Category_get_queryset(categories, u) :
            c # d => ~iexact(categories[c].name, categories[d].name)

(***************************************************************************)
(* C23: a category create that passed the name check and is refused by the *)
(* store's uniqueness constraint ends as a 400 with a field-keyed message, *)
(* not as a server error, and stores no row.                               *)
(***************************************************************************)
C23_ConstraintRefusalIs400 ==
    [][\A w \in DOMAIN inflight \ DOMAIN inflight' :
          (/\ inflight[w].op = "category_create"
           /\ ~unique_category_per_user(categories, inflight[w].req.name,
                                        inflight[w].user, None))
          => /\ resp'.code = 400
             /\ resp'.errors # {}
             /\ categories' = categories]_vars

(***************************************************************************)
(* The stats request as the four queries it sends, one after the other and *)
(* outside a transaction: qs.count(), the counts by status, the counts by  *)
(* priority, the overdue count.  Each query sees the store of its moment;  *)
(* task writes of the same principal may run in between.                   *)
(***************************************************************************)
InPhase(w, op, phase) ==
    /\ ~Idle(w)
    /\ inflight[w].op = op
    /\ inflight[w].phase = phase

StatsFrame ==
    /\ UNCHANGED <<categories, tasks, next_category_id, next_task_id, was_in_progress,
                   today, now, stamps>>
    /\ UNCHANGED account_vars

\* total = qs.count()
StatsTotal(w, u) ==
    /\ Idle(w)
    /\ inflight' = inflight @@
          (w :> [op |-> "task_stats", phase |-> 1, user |-> u,
                 total |-> stats(tasks, u, today).total])
    /\ UNCHANGED resp
    /\ StatsFrame

\* status_counts, by_status
StatsByStatus(w) ==
    /\ InPhase(w, "task_stats", 1)
    /\ LET f == inflight[w]
       IN inflight' = [inflight EXCEPT ![w] =
             [op |-> f.op, phase |-> 2, user |-> f.user, total |-> f.total,
              by_status |-> stats(tasks, f.user, today).by_status]]
    /\ UNCHANGED resp
    /\ StatsFrame

\* priority_counts, by_priority
StatsByPriority(w) ==
    /\ InPhase(w, "task_stats", 2)
    /\ LET f == inflight[w]
       IN inflight' = [inflight EXCEPT ![w] =
             [op |-> f.op, phase |-> 3, user |-> f.user, total |-> f.total,
              by_status |-> f.by_status,
              by_priority |-> stats(tasks, f.user, today).by_priority]]
    /\ UNCHANGED resp
    /\ StatsFrame

\* overdue, and the response built from the four results
StatsOverdue(w) ==
    /\ InPhase(w, "task_stats", 3)
    /\ LET f == inflight[w]
       IN resp' = Response("task_stats", f.user, None, 200, {},
                           {[total |-> f.total, by_status |-> f.by_status,
                             by_priority |-> f.by_priority,
                             overdue |-> stats(tasks, f.user, today).overdue]})
    /\ inflight' = Done(w)
    /\ StatsFrame

StatsTaskCreateReqs ==
    {[title |-> t] : t \in Titles}
    \cup {[title |-> t, priority |-> "high", due_date |-> 0] : t \in Titles}

NextStatsRace ==
    \/ \E req \in StatsTaskCreateReqs : LifeTaskCreate(req)
    \/ \E id \in LifeTaskIds : TaskPatch(Owner, id, [status |-> "in_progress"])
    \/ \E id \in LifeTaskIds : TaskPatch(Owner, id, [status |-> "done"])
    \/ \E id \in LifeTaskIds : TaskDelete(Owner, id)
    \/ StatsTotal("w1", Owner)
    \/ StatsByStatus("w1")
    \/ StatsByPriority("w1")
    \/ StatsOverdue("w1")

\* today is the last day of the calendar: a due date of day 0 is past.
SpecStatsRace == InitReject /\ [][NextStatsRace]_vars

(***************************************************************************)
(* C24: the four numbers of every stats response come from one snapshot:   *)
(* total equals the sum of the by_status values and the sum of the         *)
(* by_priority values, and overdue is at most total minus by_status[done], *)
(* also when task writes of the same principal interleave.                 *)
(***************************************************************************)
C24_StatsOneSnapshot ==
    resp.op = "task_stats" =>
        \A d \in resp.data :
            /\ d.total = d.by_status["todo"] + d.by_status["in_progress"] + d.by_status["done"]
            /\ d.total = d.by_priority["low"] + d.by_priority["medium"]
                            + d.by_priority["high"] + d.by_priority["urgent"]
            /\ d.overdue <= d.total - d.by_status["done"]

====
